---- MODULE Spec2Model ----
(***************************************************************************)
(* The shader dispatch cache of libplacebo (src/src/dispatch.c): the live  *)
(* compiled passes of a pl_dispatch, their lookup and construction in      *)
(* find_pass, the eviction in garbage_collect_passes, and the persistent   *)
(* program cache written by pl_dispatch_save and read by pl_dispatch_load. *)
(*                                                                         *)
(* The persistent cache is modelled at byte level (little-endian fields of *)
(* the widths the code writes), so that a misplaced read position shows up *)
(* as misparsed fields.                                                    *)
(***************************************************************************)
EXTENDS Integers, Sequences, FiniteSets, TLC

\* ------------------------------------------------------------------ bounds

\* dp->max_passes after pl_dispatch_create. The code sets MAX_PASSES = 100;
\* the model starts from a smaller capacity so that eviction is reachable.
MAX_PASSES == 1

\* Minimum age (in frames) of an evictable pass. The code uses 10; scaled
\* down together with the number of frames explored.
MIN_AGE == 2

\* Calls counted in one sequence of equal pl_dispatch_finish calls.
MaxStreak == 3

\* pl_dispatch_reset_frame is not called any more once current_index has
\* reached MaxFrame: just enough frames for a record to become evictable.
MaxFrame == MIN_AGE

\* No new record is built while more than MaxRecords records are live.
MaxRecords == MAX_PASSES + 1

\* Accumulators (struct pl_shader) the caller holds at the same time.
MaxHeld == 1

\* Variables of a shader.
MaxVars == 2

\* ------------------------------------------------------- program constants

\* uint8_t current_index wraps modulo 2^8
IndexMod == 256

\* uint8_t current_ident wraps modulo 2^8
IdentMod == 256

\* ------------------------------------------------------------------ inputs

\* Shader signatures; signature 1 belongs to a compute shader.
Sigs == {1, 2}

\* Texture formats (const struct pl_fmt *)
Fmts == {1, 2}

\* struct pl_shader as find_pass sees it: the value pl_shader_signature
\* returns for it and whether it is a compute shader. The signature hashes
\* the shader text and settings, never the objects bound to its descriptors.
Shaders == { [sig |-> s, is_compute |-> (s = 1)] : s \in Sigs }

pl_shader_signature(sh) == sh.sig

pl_shader_is_compute(sh) == sh.is_compute

\* const struct pl_tex *target: only the format takes part in the cache.
NoTarget == [fmt |-> 0]
Targets == { [fmt |-> f] : f \in Fmts }

\* pl_fmt.glsl_format: the layout qualifier of a format, "" when it has none
GlslFormat(f) ==
    IF f = 1 THEN "rgba8" ELSE IF f = 2 THEN "rgba16f" ELSE ""

\* const struct pl_blend_params *: NULL or the four factors
NullBlend == [null |-> TRUE, src_rgb |-> 0, dst_rgb |-> 0,
              src_alpha |-> 0, dst_alpha |-> 0]
AlphaBlend == [null |-> FALSE, src_rgb |-> 2, dst_rgb |-> 3,
               src_alpha |-> 1, dst_alpha |-> 3]

\* const struct pl_dispatch_vertex_params *vparams: NULL or type and stride
NullVParams == [null |-> TRUE, vertex_type |-> "", vertex_stride |-> 0]

\* What the backend does with one pass construction. A shader whose build
\* ends in ubo_failed has variables placed in a uniform buffer; the others
\* are built without one.
BuildOutcomes == {"ok", "placement_failed", "ubo_failed", "create_failed"}

\* const struct pl_gpu: the capabilities and limits add_pass_var reads.
\* max_pushc_size 6 is a budget that is no multiple of 4.
Gpus ==
    [vulkan : BOOLEAN, max_pushc_size : {0, 6, 16},
     glsl_version : {330, 450}, max_ubo_size : {0, 32},
     input_variables : BOOLEAN]

\* A backend with global uniforms only
DefaultGpu ==
    [vulkan |-> FALSE, max_pushc_size |-> 0, glsl_version |-> 330,
     max_ubo_size |-> 0, input_variables |-> TRUE]

\* struct pl_shader_var without its data: a float, a vec3, a mat3 and a
\* float marked dynamic
VarShapes ==
    { [dim_v |-> 1, dim_m |-> 1, dim_a |-> 1, dynamic |-> FALSE],
      [dim_v |-> 3, dim_m |-> 1, dim_a |-> 1, dynamic |-> FALSE],
      [dim_v |-> 3, dim_m |-> 3, dim_a |-> 1, dynamic |-> FALSE],
      [dim_v |-> 1, dim_m |-> 1, dim_a |-> 1, dynamic |-> TRUE] }

\* sh->vars: up to MaxVars variables
ShaderVars == UNION { [1 .. n -> VarShapes] : n \in 0 .. MaxVars }

\* sv->data: two values of a variable's bytes
VarData == { <<0>>, <<1>> }

\* ------------------------------------------------------------------- state

VARIABLES
    passes,         \* dp->passes: sequence of struct pass
    cached_passes,  \* dp->cached_passes: sequence of struct cached_pass
    max_passes,     \* dp->max_passes
    current_index,  \* dp->current_index
    current_ident,  \* dp->current_ident
    shaders,        \* dp->shaders: the pooled accumulators, last one on top
    held,           \* the accumulators the caller got from begin and holds
    gpu,            \* dp->gpu: the capabilities and limits of the backend
    shader_vars,    \* sh->vars of the raster shader: the shapes of its variables
    pass_vars,      \* pass->vars of the raster shader's record
    last,           \* the backend calls and result of the last operation
    failed_sigs,    \* history: signatures whose pass construction has failed
    streak,         \* history: the running sequence of equal pl_dispatch_finish
    after_load,     \* history: the last blob loaded and the creations since
    frame_tags,     \* history: the tags begin(unique) gave out in this frame
    gpu_objects     \* the backend: the objects it has created and destroyed

vars ==
    <<passes, cached_passes, max_passes, current_index, current_ident,
      shaders, held, gpu, shader_vars, pass_vars, last, failed_sigs, streak,
      after_load, frame_tags, gpu_objects>>

\* ----------------------------------------------------------------- records

\* const struct pl_pass *pass == NULL
NullPass ==
    [null |-> TRUE, type |-> "none", fmt |-> 0, blend_params |-> NullBlend,
     load_target |-> FALSE, vertex_type |-> "", vertex_stride |-> 0,
     glsl_format |-> "", cached_program |-> <<>>]

\* The observable effect of one operation: which backend calls it issued.
NoCall ==
    [op |-> "create", sig |-> 0, hit |-> FALSE, pass_create |-> 0,
     cached_program |-> <<>>, pass_run |-> 0, ret |-> FALSE,
     used |-> NullPass, fresh |-> NullPass, target |-> 0, blob |-> <<>>,
     size |-> 0, pass_destroy |-> 0, buf_create |-> 0, tag |-> 0,
     data |-> <<>>, updates |-> <<>>, push_constants_size |-> 0,
     outcome |-> "none", violation |-> "none", obj |-> 0, ubo |-> 0,
     trace |-> <<>>, bindings |-> <<>>, input |-> <<>>, groups |-> <<>>]

\* The backend has created no object: created counts the handles given out
\* (1 .. created), destroyed how often each was handed to pl_buf_destroy or
\* pl_pass_destroy
NoObjects == [created |-> 0, destroyed |-> <<>>]

\* No sequence of equal pl_dispatch_finish calls is running
NoStreak ==
    [key |-> <<>>, calls |-> 0, creates |-> 0, runs |-> 0, ok |-> FALSE,
     frames |-> 0]

\* ---------------------------------------------------------------- eviction

\* #define pass_age(pass) (dp->current_index - (pass)->last_index)
pass_age(cur, p) == cur - p.last_index

\* cmp_pass_age orders by b->last_index - a->last_index: descending
\* last_index. qsort is not stable, so any descending order may result.
IsSortedByAge(q) ==
    \A i \in 1 .. Len(q) - 1 : q[i].last_index >= q[i + 1].last_index

Permutations_(n) ==
    { f \in [1 .. n -> 1 .. n] : \A i, j \in 1 .. n : f[i] = f[j] => i = j }

qsort(ps) ==
    { q \in { [i \in 1 .. Len(ps) |-> ps[f[i]]] : f \in Permutations_(Len(ps)) } :
        IsSortedByAge(q) }

\* Mutant: the walk does not skip passes younger than MIN_AGE
EvictFrom_NoSkip(q, cur, idx) == idx

\* The index from which garbage_collect_passes evicts: starts at the middle
\* and skips passes younger than MIN_AGE.
RECURSIVE EvictFrom(_, _, _)
EvictFrom(q, cur, idx) ==
    IF idx <= Len(q) /\ pass_age(cur, q[idx]) < MIN_AGE
    THEN EvictFrom(q, cur, idx + 1)
    ELSE idx

\* Mutant: the capacity bound is left alone when nothing could be evicted
garbage_collect_passes_NoDouble(ps, max, cur, q) ==
    IF Len(ps) <= max
    THEN [passes |-> ps, max_passes |-> max, evicted |-> 0,
          destroyed |-> <<>>]
    ELSE LET idx == EvictFrom(q, cur, Len(q) \div 2 + 1)
         IN  [passes |-> SubSeq(q, 1, idx - 1),
              max_passes |-> max,
              evicted |-> Len(q) - (idx - 1),
              destroyed |-> SubSeq(q, idx, Len(q))]

\* Mutant: the capacity doubles in every eviction pass
garbage_collect_passes_AlwaysDouble(ps, max, cur, q) ==
    IF Len(ps) <= max
    THEN [passes |-> ps, max_passes |-> max, evicted |-> 0,
          destroyed |-> <<>>]
    ELSE LET idx == EvictFrom(q, cur, Len(q) \div 2 + 1)
         IN  [passes |-> SubSeq(q, 1, idx - 1),
              max_passes |-> max * 2,
              evicted |-> Len(q) - (idx - 1),
              destroyed |-> SubSeq(q, idx, Len(q))]

\* garbage_collect_passes(dp), given the order q that qsort produced.
\* Sequences are 1-based: C index n/2 is position n \div 2 + 1.
garbage_collect_passes(ps, max, cur, q) ==
    IF Len(ps) <= max
    THEN [passes |-> ps, max_passes |-> max, evicted |-> 0,
          destroyed |-> <<>>]
    ELSE LET idx == EvictFrom(q, cur, Len(q) \div 2 + 1)
             num_evicted == Len(q) - (idx - 1)
         IN  [passes |-> SubSeq(q, 1, idx - 1),
              max_passes |-> IF num_evicted > 0 THEN max ELSE max * 2,
              evicted |-> num_evicted,
              destroyed |-> SubSeq(q, idx, Len(q))]

\* ------------------------------------------------------------------ lookup

\* Mutant: two absent blend parameters do not count as equal
blend_equal_NullDiffers(a, b) ==
    IF a.null \/ b.null THEN FALSE
    ELSE /\ a.src_rgb = b.src_rgb
         /\ a.dst_rgb = b.dst_rgb
         /\ a.src_alpha = b.src_alpha
         /\ a.dst_alpha = b.dst_alpha

\* blend_equal(a, b)
blend_equal(a, b) ==
    IF a.null /\ b.null THEN TRUE
    ELSE IF a.null \/ b.null THEN FALSE
    ELSE /\ a.src_rgb = b.src_rgb
         /\ a.dst_rgb = b.dst_rgb
         /\ a.src_alpha = b.src_alpha
         /\ a.dst_alpha = b.dst_alpha

\* Mutant: the vertex parameters are compared even when the caller gave none
raster_ok_AlwaysVertex(p, target, blend, load, vparams) ==
    /\ target.fmt = p.pass.fmt
    /\ blend_equal(p.pass.blend_params, blend)
    /\ load = p.pass.load_target
    /\ p.pass.vertex_type = vparams.vertex_type
    /\ p.pass.vertex_stride = vparams.vertex_stride

\* The raster_ok test of find_pass for a record with a non-empty pass
raster_ok(p, target, blend, load, vparams) ==
    /\ target.fmt = p.pass.fmt
    /\ blend_equal(p.pass.blend_params, blend)
    /\ load = p.pass.load_target
    /\ vparams.null \/ /\ p.pass.vertex_type = vparams.vertex_type
                       /\ p.pass.vertex_stride = vparams.vertex_stride

\* Mutant: a record without pass is not returned by the lookup
pass_matches_SkipFailed(p, sh, target, blend, load, vparams) ==
    /\ p.signature = pl_shader_signature(sh)
    /\ ~p.pass.null
    /\ \/ pl_shader_is_compute(sh)
       \/ raster_ok(p, target, blend, load, vparams)

\* Whether the lookup loop of find_pass returns record p for this query
pass_matches(p, sh, target, blend, load, vparams) ==
    /\ p.signature = pl_shader_signature(sh)
    /\ \/ p.pass.null
       \/ pl_shader_is_compute(sh)
       \/ raster_ok(p, target, blend, load, vparams)

\* Position of the first matching record, 0 when there is none
find_index(ps, sh, target, blend, load, vparams) ==
    LET hits == { i \in 1 .. Len(ps) :
                    pass_matches(ps[i], sh, target, blend, load, vparams) }
    IN  IF hits = {} THEN 0 ELSE CHOOSE i \in hits : \A j \in hits : i <= j

\* ------------------------------------------------------------ construction

\* Little-endian encoding of a value below 2^16 in a field of n bytes
Enc(v, n) == [i \in 1 .. n |-> IF i = 1 THEN v % 256
                               ELSE IF i = 2 THEN (v \div 256) % 256
                               ELSE 0]

\* uint64_t fields of the cache
Enc64(v) == Enc(v, 8)

\* Mutant: the search takes the first entry, whatever its signature
cached_index_Any(cs, sig) == IF cs = <<>> THEN 0 ELSE 1

\* The search of dp->cached_passes for a signature: position of the first
\* entry carrying it, 0 when there is none
cached_index(cs, sig) ==
    LET hits == { i \in 1 .. Len(cs) : cs[i].signature = Enc64(sig) }
    IN  IF hits = {} THEN 0 ELSE CHOOSE i \in hits : \A j \in hits : i <= j

\* PL_ARRAY_REMOVE_AT
RemoveAt_Keep(s, i) == s

RemoveAt(s, i) == SubSeq(s, 1, i - 1) \o SubSeq(s, i + 1, Len(s))

\* The layout(...) format qualifier that generate_shaders emits for the
\* storage image of the shader: pl_dispatch_finish binds the target itself
\* as "out_image" of a compute shader (translate_compute_shader).
generated_format(sh, target) ==
    IF pl_shader_is_compute(sh) /\ target.fmt # 0
    THEN GlslFormat(target.fmt)
    ELSE ""

\* struct pl_pass_params as find_pass fills it in for a new pass
pass_params(sh, target, blend, load, vparams) ==
    [null |-> FALSE,
     type |-> IF pl_shader_is_compute(sh) THEN "compute" ELSE "raster",
     fmt |-> IF pl_shader_is_compute(sh) THEN 0 ELSE target.fmt,
     blend_params |-> blend,
     load_target |-> IF pl_shader_is_compute(sh) THEN FALSE ELSE load,
     vertex_type |-> IF vparams.null THEN "triangle_strip"
                     ELSE vparams.vertex_type,
     vertex_stride |-> IF pl_shader_is_compute(sh) THEN 0
                       ELSE IF vparams.null THEN 8
                       ELSE vparams.vertex_stride,
     glsl_format |-> generated_format(sh, target),
     cached_program |-> <<>>]

\* The compiled binary a created pass exposes in
\* pass->params.cached_program when the backend has one
CompiledProgram(sig) == <<16 + sig>>

\* Mutant: the error exits of the construction are ignored
built_pass_Always(sh, target, blend, load, vparams, outcome, prog) ==
    [pass_params(sh, target, blend, load, vparams)
       EXCEPT !.cached_program = prog]

\* pass->pass at the error label of find_pass: what pl_pass_create returned,
\* NULL when it failed or when an earlier step went to the label
built_pass(sh, target, blend, load, vparams, outcome, prog) ==
    IF outcome = "ok"
    THEN [pass_params(sh, target, blend, load, vparams)
            EXCEPT !.cached_program = prog]
    ELSE NullPass

\* Mutant: the new record is not added to dp->passes
PL_ARRAY_APPEND_Drop(ps, rec) == ps

\* PL_ARRAY_APPEND(dp, dp->passes, pass)
PL_ARRAY_APPEND(ps, rec) == Append(ps, rec)

\* find_pass: lookup, and on a miss construction of a new record, eviction
\* and append. outcome and prog are the backend's answers during the
\* construction, q the order qsort leaves the records in.
find_pass(ps, cs, max, cur, sh, target, blend, load, vparams, outcome, prog, q) ==
    LET sig == pl_shader_signature(sh)
        i == find_index(ps, sh, target, blend, load, vparams)
    IN  IF i # 0
        THEN [passes |-> [ps EXCEPT ![i].last_index = cur],
              cached_passes |-> cs, max_passes |-> max,
              pass |-> ps[i].pass, hit |-> TRUE, pass_create |-> 0,
              cached_program |-> <<>>, pass_destroy |-> 0, buf_create |-> 0,
              destroyed |-> <<>>]
        ELSE LET c == cached_index(cs, sig)
                 given == IF c = 0 THEN <<>> ELSE cs[c].cached_program
                 created == outcome \in {"ok", "create_failed"}
                 pass == built_pass(sh, target, blend, load, vparams,
                                    outcome, prog)
                 rec == [signature |-> sig, pass |-> pass, last_index |-> cur]
                 gc == garbage_collect_passes(ps, max, cur, q)
             IN  [passes |-> PL_ARRAY_APPEND(gc.passes, rec),
                  cached_passes |-> IF c = 0 THEN cs ELSE RemoveAt(cs, c),
                  max_passes |-> gc.max_passes,
                  pass |-> pass, hit |-> FALSE,
                  pass_create |-> IF created THEN 1 ELSE 0,
                  cached_program |-> IF created THEN given ELSE <<>>,
                  pass_destroy |-> gc.evicted,
                  buf_create |-> IF outcome = "ubo_failed" THEN 1 ELSE 0,
                  destroyed |-> gc.destroyed]

\* ------------------------------------------------------ variable placement

\* PL_ALIGN2(x, align) for align a power of two
PL_ALIGN2(x, align) == ((x + align - 1) \div align) * align

\* Bytes of one component: every pl_var type (sint, uint, float) has 4
ElSize == 4

\* pl_std430_layout(offset, var): vec3 is aligned like vec4, matrices and
\* arrays are packed with the stride of their aligned column
pl_std430_layout(offset, var) ==
    LET stride0 == ElSize * var.dim_v
        align == IF var.dim_v = 3 THEN stride0 + ElSize ELSE stride0
        stride == IF var.dim_m * var.dim_a > 1 THEN align ELSE stride0
    IN  [offset |-> PL_ALIGN2(offset, align), stride |-> stride,
         size |-> stride * var.dim_m * var.dim_a]

\* pl_std140_layout(offset, var): as std430, but the stride of matrix
\* columns and array elements is rounded up to that of a vec4
pl_std140_layout(offset, var) ==
    LET stride0 == ElSize * var.dim_v
        align0 == IF var.dim_v = 3 THEN stride0 + ElSize ELSE stride0
        many == var.dim_m * var.dim_a > 1
        stride == IF many THEN PL_ALIGN2(stride0, 4 * ElSize) ELSE stride0
        align == IF many THEN stride ELSE align0
    IN  [offset |-> PL_ALIGN2(offset, align), stride |-> stride,
         size |-> stride * var.dim_m * var.dim_a]

\* pl_var_host_layout(0, var): tightly packed
pl_var_host_layout(var) ==
    [offset |-> 0, stride |-> ElSize * var.dim_v,
     size |-> ElSize * var.dim_v * var.dim_m * var.dim_a]

\* struct pass_var before placement
NoPlacement ==
    [type |-> "none", index |-> 0,
     layout |-> [offset |-> 0, stride |-> 0, size |-> 0], cached |-> <<>>]

\* What find_pass accumulates while it places variables:
\* params.push_constants_size, the size of pass->ubo_desc and
\* params.num_variables
NoneFilled == [push_constants_size |-> 0, ubo_size |-> 0, num_variables |-> 0]

\* Mutant: the conservative loop offers push constants to large variables
\* as well, so that the variables are placed in declaration order
add_pass_var_DeclOrder(g, st, sv, pv, greedy) ==
    IF pv.type # "none" THEN [ok |-> TRUE, pv |-> pv, st |-> st]
    ELSE
    LET pc == pl_std430_layout(st.push_constants_size, sv)
        pc_tried == g.vulkan /\ g.max_pushc_size # 0
        pv1 == IF pc_tried THEN [pv EXCEPT !.layout = pc] ELSE pv
        ub == pl_std140_layout(st.ubo_size, sv)
        ubo_tried == ((~g.input_variables) \/ ~sv.dynamic)
                     /\ g.glsl_version >= 440 /\ g.max_ubo_size # 0
    IN  IF pc_tried /\ pc.offset + pc.size <= g.max_pushc_size
        THEN [ok |-> TRUE, pv |-> [pv1 EXCEPT !.type = "pushc"],
              st |-> [st EXCEPT !.push_constants_size = pc.offset + pc.size]]
        ELSE IF ~greedy THEN [ok |-> TRUE, pv |-> pv1, st |-> st]
        ELSE IF ubo_tried /\ ub.offset + ub.size <= g.max_ubo_size
        THEN [ok |-> TRUE, pv |-> [pv1 EXCEPT !.type = "ubo", !.layout = ub],
              st |-> [st EXCEPT !.ubo_size = ub.offset + ub.size]]
        ELSE IF g.input_variables
        THEN [ok |-> TRUE,
              pv |-> [pv1 EXCEPT !.type = "global",
                                 !.index = st.num_variables,
                                 !.layout = pl_var_host_layout(sv)],
              st |-> [st EXCEPT !.num_variables = @ + 1]]
        ELSE [ok |-> FALSE, pv |-> pv1, st |-> st]

\* Mutant: dynamic variables are offered the uniform buffer on every backend
add_pass_var_UboForDynamic(g, st, sv, pv, greedy) ==
    IF pv.type # "none" THEN [ok |-> TRUE, pv |-> pv, st |-> st]
    ELSE
    LET try_pushc == greedy \/ (sv.dim_m = 1 /\ sv.dim_a = 1) \/ sv.dynamic
        pc == pl_std430_layout(st.push_constants_size, sv)
        pc_tried == try_pushc /\ g.vulkan /\ g.max_pushc_size # 0
        pv1 == IF pc_tried THEN [pv EXCEPT !.layout = pc] ELSE pv
        ub == pl_std140_layout(st.ubo_size, sv)
        ubo_tried == g.glsl_version >= 440 /\ g.max_ubo_size # 0
    IN  IF pc_tried /\ pc.offset + pc.size <= g.max_pushc_size
        THEN [ok |-> TRUE, pv |-> [pv1 EXCEPT !.type = "pushc"],
              st |-> [st EXCEPT !.push_constants_size = pc.offset + pc.size]]
        ELSE IF ~greedy THEN [ok |-> TRUE, pv |-> pv1, st |-> st]
        ELSE IF ubo_tried /\ ub.offset + ub.size <= g.max_ubo_size
        THEN [ok |-> TRUE, pv |-> [pv1 EXCEPT !.type = "ubo", !.layout = ub],
              st |-> [st EXCEPT !.ubo_size = ub.offset + ub.size]]
        ELSE IF g.input_variables
        THEN [ok |-> TRUE,
              pv |-> [pv1 EXCEPT !.type = "global",
                                 !.index = st.num_variables,
                                 !.layout = pl_var_host_layout(sv)],
              st |-> [st EXCEPT !.num_variables = @ + 1]]
        ELSE [ok |-> FALSE, pv |-> pv1, st |-> st]

\* Mutant: a variable placed in push constants does not advance
\* params->push_constants_size past the first four bytes
add_pass_var_NoAdvance(g, st, sv, pv, greedy) ==
    IF pv.type # "none" THEN [ok |-> TRUE, pv |-> pv, st |-> st]
    ELSE
    LET try_pushc == greedy \/ (sv.dim_m = 1 /\ sv.dim_a = 1) \/ sv.dynamic
        pc == pl_std430_layout(st.push_constants_size, sv)
        pc_tried == try_pushc /\ g.vulkan /\ g.max_pushc_size # 0
        pv1 == IF pc_tried THEN [pv EXCEPT !.layout = pc] ELSE pv
        ub == pl_std140_layout(st.ubo_size, sv)
        ubo_tried == ((~g.input_variables) \/ ~sv.dynamic)
                     /\ g.glsl_version >= 440 /\ g.max_ubo_size # 0
    IN  IF pc_tried /\ pc.offset + pc.size <= g.max_pushc_size
        THEN [ok |-> TRUE, pv |-> [pv1 EXCEPT !.type = "pushc"],
              st |-> [st EXCEPT !.push_constants_size = pc.offset + 4]]
        ELSE IF ~greedy THEN [ok |-> TRUE, pv |-> pv1, st |-> st]
        ELSE IF ubo_tried /\ ub.offset + ub.size <= g.max_ubo_size
        THEN [ok |-> TRUE, pv |-> [pv1 EXCEPT !.type = "ubo", !.layout = ub],
              st |-> [st EXCEPT !.ubo_size = ub.offset + ub.size]]
        ELSE IF g.input_variables
        THEN [ok |-> TRUE,
              pv |-> [pv1 EXCEPT !.type = "global",
                                 !.index = st.num_variables,
                                 !.layout = pl_var_host_layout(sv)],
              st |-> [st EXCEPT !.num_variables = @ + 1]]
        ELSE [ok |-> FALSE, pv |-> pv1, st |-> st]

\* Mutant: every variable goes to push constants, whatever the budget
add_pass_var_NoBudget(g, st, sv, pv, greedy) ==
    IF pv.type # "none" THEN [ok |-> TRUE, pv |-> pv, st |-> st]
    ELSE LET l == pl_std430_layout(st.push_constants_size, sv)
         IN  [ok |-> TRUE,
              pv |-> [pv EXCEPT !.type = "pushc", !.layout = l],
              st |-> [st EXCEPT !.push_constants_size = l.offset + l.size]]

\* add_pass_var(dp, tmp, pass, params, sv, pv, greedy)
add_pass_var(g, st, sv, pv, greedy) ==
    IF pv.type # "none" THEN [ok |-> TRUE, pv |-> pv, st |-> st]
    ELSE
    LET try_pushc == greedy \/ (sv.dim_m = 1 /\ sv.dim_a = 1) \/ sv.dynamic
        pc == pl_std430_layout(st.push_constants_size, sv)
        pc_tried == try_pushc /\ g.vulkan /\ g.max_pushc_size # 0
        pv1 == IF pc_tried THEN [pv EXCEPT !.layout = pc] ELSE pv
        try_ubo == (~g.input_variables) \/ ~sv.dynamic
        ub == pl_std140_layout(st.ubo_size, sv)
        ubo_tried == try_ubo /\ g.glsl_version >= 440 /\ g.max_ubo_size # 0
    IN  IF pc_tried /\ pc.offset + pc.size <= g.max_pushc_size
        THEN [ok |-> TRUE, pv |-> [pv1 EXCEPT !.type = "pushc"],
              st |-> [st EXCEPT !.push_constants_size = pc.offset + pc.size]]
        ELSE IF ~greedy THEN [ok |-> TRUE, pv |-> pv1, st |-> st]
        ELSE IF ubo_tried /\ ub.offset + ub.size <= g.max_ubo_size
        THEN [ok |-> TRUE, pv |-> [pv1 EXCEPT !.type = "ubo", !.layout = ub],
              st |-> [st EXCEPT !.ubo_size = ub.offset + ub.size]]
        ELSE IF g.input_variables
        THEN [ok |-> TRUE,
              pv |-> [pv1 EXCEPT !.type = "global",
                                 !.index = st.num_variables,
                                 !.layout = pl_var_host_layout(sv)],
              st |-> [st EXCEPT !.num_variables = @ + 1]]
        ELSE [ok |-> FALSE, pv |-> pv1, st |-> st]

\* One of the two loops of find_pass over sh->vars, from variable i on
RECURSIVE place_loop(_, _, _, _, _, _)
place_loop(g, st, svs, pvs, greedy, i) ==
    IF i > Len(svs) THEN [ok |-> TRUE, pvs |-> pvs, st |-> st]
    ELSE LET r == add_pass_var(g, st, svs[i], pvs[i], greedy)
         IN  IF ~r.ok THEN [ok |-> FALSE, pvs |-> [pvs EXCEPT ![i] = r.pv],
                            st |-> r.st]
             ELSE place_loop(g, r.st, svs, [pvs EXCEPT ![i] = r.pv],
                             greedy, i + 1)

\* Mutant: only the conservative loop runs
place_vars_OnePass(g, svs) ==
    LET a == place_loop(g, NoneFilled, svs,
                        [i \in 1 .. Len(svs) |-> NoPlacement], FALSE, 1)
    IN  [ok |-> a.ok, pvs |-> a.pvs,
         push_constants_size |-> PL_ALIGN2(a.st.push_constants_size, 4),
         ubo_size |-> a.st.ubo_size]

\* The variable placement of find_pass: the conservative loop, then the
\* greedy one; push_constants_size is rounded up afterwards
place_vars(g, svs) ==
    LET a == place_loop(g, NoneFilled, svs,
                        [i \in 1 .. Len(svs) |-> NoPlacement], FALSE, 1)
        b == IF a.ok THEN place_loop(g, a.st, svs, a.pvs, TRUE, 1) ELSE a
    IN  [ok |-> b.ok, pvs |-> b.pvs,
         push_constants_size |-> PL_ALIGN2(b.st.push_constants_size, 4),
         ubo_size |-> b.st.ubo_size]

\* What the switch of update_pass_var does for a placement kind
UpdateKind(type) ==
    IF type = "global" THEN "var_update"
    ELSE IF type = "ubo" THEN "buf_write"
    ELSE IF type = "pushc" THEN "pushc_copy"
    ELSE "abort"

\* Mutant: the cached bytes are not compared
update_pass_var_Always(data, pv) ==
    [pv |-> [pv EXCEPT !.cached = data], update |-> UpdateKind(pv.type)]

\* update_pass_var(dp, pass, sv, pv): data are the bytes of sv->data;
\* update is the write it issues, "none" when it returns early
update_pass_var(data, pv) ==
    IF pv.cached # <<>> /\ data = pv.cached
    THEN [pv |-> pv, update |-> "none"]
    ELSE [pv |-> [pv EXCEPT !.cached = data], update |-> UpdateKind(pv.type)]

\* -------------------------------------------------------- persistent cache

\* static const char cache_magic[] = {'P', 'L', 'D', 'P'}
cache_magic == <<80, 76, 68, 80>>

\* static const uint32_t cache_version = 1, as the four bytes WRITE emits
cache_version == Enc(1, 4)

\* A decoded length of Huge stands for any value of 256 or more
Huge == 256

\* The value of a little-endian field
Dec(bytes) ==
    IF \A i \in 2 .. Len(bytes) : bytes[i] = 0 THEN bytes[1] ELSE Huge

\* LOAD(var): the n bytes at the read position (pos counts from 1). Bytes
\* behind the end of the memory given are read as 0.
Read(mem, pos, n) ==
    [i \in 1 .. n |-> IF pos + i - 1 <= Len(mem) THEN mem[pos + i - 1] ELSE 0]

\* The first loop of pl_dispatch_save: the compiled passes that expose a
\* cached program
RECURSIVE save_passes(_, _)
save_passes(ps, i) ==
    IF i > Len(ps) THEN <<>>
    ELSE (IF ps[i].pass.null \/ Len(ps[i].pass.cached_program) = 0
          THEN <<>>
          ELSE Enc64(ps[i].signature)
               \o Enc64(Len(ps[i].pass.cached_program))
               \o ps[i].pass.cached_program)
         \o save_passes(ps, i + 1)

\* The second loop of pl_dispatch_save: the loaded programs not yet compiled
RECURSIVE save_cached(_, _)
save_cached(cs, i) ==
    IF i > Len(cs) THEN <<>>
    ELSE cs[i].signature
         \o Enc64(Len(cs[i].cached_program))
         \o cs[i].cached_program
         \o save_cached(cs, i + 1)

\* The size_t size that write_buf advances in the first loop of
\* pl_dispatch_save, whether or not there is a buffer to copy into
RECURSIVE size_passes_CountSkipped(_, _)
size_passes_CountSkipped(ps, i) ==
    IF i > Len(ps) THEN 0
    ELSE 8 + 8 + Len(ps[i].pass.cached_program)
         + size_passes_CountSkipped(ps, i + 1)

RECURSIVE size_passes(_, _)
size_passes(ps, i) ==
    IF i > Len(ps) THEN 0
    ELSE (IF ps[i].pass.null \/ Len(ps[i].pass.cached_program) = 0
          THEN 0
          ELSE 8 + 8 + Len(ps[i].pass.cached_program))
         + size_passes(ps, i + 1)

\* The same for the second loop
RECURSIVE size_cached(_, _)
size_cached(cs, i) ==
    IF i > Len(cs) THEN 0
    ELSE 8 + 8 + Len(cs[i].cached_program) + size_cached(cs, i + 1)

\* The value pl_dispatch_save returns
save_size(ps, cs) == 4 + 4 + 4 + size_passes(ps, 1) + size_cached(cs, 1)

\* pl_dispatch_save(dp, out): the bytes written to out
pl_dispatch_save(ps, cs) ==
    cache_magic \o cache_version \o Enc(Len(ps) + Len(cs), 4)
    \o save_passes(ps, 1) \o save_cached(cs, 1)

\* Mutant: no entry of dp->cached_passes is ever found
cached_index_bytes_None(cs, sig) == 0

\* Position of the first entry of dp->cached_passes with this signature
\* (eight bytes), 0 when there is none
cached_index_bytes(cs, sig) ==
    LET hits == { i \in 1 .. Len(cs) : cs[i].signature = sig }
    IN  IF hits = {} THEN 0 ELSE CHOOSE i \in hits : \A j \in hits : i <= j

\* The entry loop of pl_dispatch_load from entry i on, reading at pos. The
\* inner loop over dp->passes advances the read position once per record
\* with the entry's signature and then goes on to the code below it. A size
\* of Huge makes pl_memdup fail, which aborts the process.
RECURSIVE load_entries(_, _, _, _, _, _)
load_entries(i, num, pos, cs, ps, mem) ==
    IF i >= num THEN [cached_passes |-> cs, aborted |-> FALSE]
    ELSE LET sig == Read(mem, pos, 8)
             size == Dec(Read(mem, pos + 8, 8))
             p1 == pos + 16
         IN  IF size = 0 THEN load_entries(i + 1, num, p1, cs, ps, mem)
             ELSE IF size >= Huge THEN [cached_passes |-> cs, aborted |-> TRUE]
             ELSE LET compiled == { n \in 1 .. Len(ps) :
                                      Enc64(ps[n].signature) = sig }
                      p2 == p1 + Cardinality(compiled) * size
                      c == cached_index_bytes(cs, sig)
                      program == Read(mem, p2, size)
                      cs2 == IF c = 0
                             THEN Append(cs, [signature |-> sig,
                                              cached_program |-> program])
                             ELSE [cs EXCEPT ![c].cached_program = program]
                  IN  load_entries(i + 1, num, p2 + size, cs2, ps, mem)

\* Mutant: the version field is not compared
pl_dispatch_load_AnyVersion(ps, cs, mem) ==
    IF Read(mem, 1, 4) # cache_magic
    THEN [cached_passes |-> cs, aborted |-> FALSE]
    ELSE load_entries(0, Dec(Read(mem, 9, 4)), 13, cs, ps, mem)

\* pl_dispatch_load(dp, cache). mem is the caller's buffer followed by
\* whatever memory lies behind it.
pl_dispatch_load(ps, cs, mem) ==
    IF Read(mem, 1, 4) # cache_magic
    THEN [cached_passes |-> cs, aborted |-> FALSE]
    ELSE IF Read(mem, 5, 4) # cache_version
    THEN [cached_passes |-> cs, aborted |-> FALSE]
    ELSE LET num == Dec(Read(mem, 9, 4))
         IN  IF num >= Huge THEN [cached_passes |-> cs, aborted |-> TRUE]
             ELSE load_entries(0, num, 13, cs, ps, mem)

\* ---------------------------------------------------------- the file format

\* The entries of a blob read as the format lays them out: (signature,
\* program) pairs one after the other from byte 13 to the end of the blob.
RECURSIVE BlobEntries(_, _)
BlobEntries(blob, pos) ==
    IF pos + 15 > Len(blob) THEN <<>>
    ELSE LET size == Dec(Read(blob, pos + 8, 8))
         IN  IF size >= Huge \/ pos + 15 + size > Len(blob) THEN <<>>
             ELSE <<[signature |-> Read(blob, pos, 8),
                     cached_program |-> Read(blob, pos + 16, size)]>>
                  \o BlobEntries(blob, pos + 16 + size)

\* The entry_count field of a blob
EntryCount(blob) == Dec(Read(blob, 9, 4))

\* A blob as an earlier process may have left it
MakeBlob(entries) ==
    cache_magic \o cache_version \o Enc(Len(entries), 4)
    \o save_cached(entries, 1)

\* No blob has been loaded
NotLoaded ==
    [loaded |-> FALSE, entries |-> <<>>,
     creates |-> [s \in Sigs |-> 0], given |-> [s \in Sigs |-> 0]]

\* The process has not been aborted and the root not been destroyed
Alive == last.op \notin {"load_abort", "assert_abort", "destroy"}

\* ----------------------------------------------------------------- actions

Init ==
    /\ passes = <<>>
    /\ cached_passes = <<>>
    /\ max_passes = MAX_PASSES
    /\ current_index = 0
    /\ current_ident = 0
    /\ shaders = <<>>
    /\ held = {}
    /\ gpu = DefaultGpu
    /\ shader_vars = <<>>
    /\ pass_vars = <<>>
    /\ last = NoCall
    /\ failed_sigs = {}
    /\ streak = NoStreak
    /\ after_load = NotLoaded
    /\ frame_tags = {}
    /\ gpu_objects = NoObjects

\* pl_dispatch_reset_frame
pl_dispatch_reset_frame ==
    /\ Alive
    /\ current_ident' = 0
    /\ current_index' = (current_index + 1) % IndexMod
    /\ last' = [NoCall EXCEPT !.op = "reset_frame"]
    /\ UNCHANGED <<passes, cached_passes, max_passes, shaders, held, gpu,
                   shader_vars, pass_vars>>

\* pl_dispatch_reset_frame during the first MaxFrame frames
ResetFrame ==
    /\ current_index < MaxFrame
    /\ pl_dispatch_reset_frame

\* pl_shader_alloc: an accumulator that is neither pooled nor held
pl_shader_alloc ==
    CHOOSE id \in 1 .. Len(shaders) + Cardinality(held) + 1 :
        /\ \A i \in 1 .. Len(shaders) : shaders[i] # id
        /\ \A a \in held : a.id # id

\* pl_dispatch_begin_ex(dp, unique): the accumulator comes from the top of
\* the pool if there is one, and carries the identity tag params.id
pl_dispatch_begin_ex(unique) ==
    LET id == IF shaders # <<>> THEN shaders[Len(shaders)]
              ELSE pl_shader_alloc
        tag == IF unique THEN current_ident ELSE 0
    IN  /\ Alive
        /\ Cardinality(held) < MaxHeld
        /\ current_ident' = IF unique THEN (current_ident + 1) % IdentMod
                            ELSE current_ident
        /\ shaders' = IF shaders # <<>>
                      THEN SubSeq(shaders, 1, Len(shaders) - 1) ELSE shaders
        /\ held' = held \cup {[id |-> id, tag |-> tag]}
        /\ last' = [NoCall EXCEPT !.op = IF unique THEN "begin_unique"
                                         ELSE "begin",
                                  !.tag = tag]
        /\ UNCHANGED <<passes, cached_passes, max_passes, current_index,
                       gpu, shader_vars, pass_vars>>

\* pl_dispatch_begin(dp)
pl_dispatch_begin == pl_dispatch_begin_ex(FALSE)

\* Mutant: the caller's handle is left pointing at the pooled accumulator
pl_dispatch_abort_KeepHandle ==
    \E a \in held :
        /\ Alive
        /\ shaders' = Append(shaders, a.id)
        /\ held' = held
        /\ last' = [NoCall EXCEPT !.op = "abort"]
        /\ UNCHANGED <<passes, cached_passes, max_passes, current_index,
                       current_ident, gpu, shader_vars, pass_vars>>

\* pl_dispatch_abort(dp, &sh) on a handle that is not NULL
pl_dispatch_abort ==
    \E a \in held :
        /\ Alive
        /\ shaders' = Append(shaders, a.id)
        /\ held' = held \ {a}
        /\ last' = [NoCall EXCEPT !.op = "abort"]
        /\ UNCHANGED <<passes, cached_passes, max_passes, current_index,
                       current_ident, gpu, shader_vars, pass_vars>>

\* Mutant: the dispatch call keeps the accumulator
return_shader_Keep == UNCHANGED <<shaders, held>>

\* The pl_dispatch_abort that ends every dispatch call. In the
\* specifications that do not follow the caller's accumulators (held stays
\* empty) the pool is left alone.
return_shader ==
    IF held = {} THEN UNCHANGED <<shaders, held>>
    ELSE \E a \in held :
            /\ shaders' = Append(shaders, a.id)
            /\ held' = held \ {a}

\* The part the three dispatch entry points share: find_pass, then
\* pl_pass_run unless the record holds no pass. v is what the caller got
\* wrong about the call, if anything.
DispatchCall(op, sh, target, blend, load, vparams, progs, v) ==
    LET hit == find_index(passes, sh, target, blend, load, vparams) # 0
    IN  /\ Alive
        /\ hit \/ Len(passes) <= MaxRecords
        /\ \E outcome \in IF hit THEN {"ok"} ELSE BuildOutcomes,
              prog \in IF hit THEN {<<>>} ELSE progs,
              q \in IF hit \/ Len(passes) <= max_passes THEN {passes}
                    ELSE qsort(passes) :
            LET r == find_pass(passes, cached_passes, max_passes,
                               current_index, sh, target, blend, load,
                               vparams, outcome, prog, q)
            IN  /\ passes' = r.passes
                /\ cached_passes' = r.cached_passes
                /\ max_passes' = r.max_passes
                /\ last' = [op |-> op, sig |-> pl_shader_signature(sh),
                            hit |-> r.hit, pass_create |-> r.pass_create,
                            cached_program |-> r.cached_program,
                            pass_run |-> IF r.pass.null THEN 0 ELSE 1,
                            ret |-> ~r.pass.null,
                            used |-> [r.pass EXCEPT !.cached_program = <<>>],
                            fresh |-> pass_params(sh, target, blend, load,
                                                  vparams),
                            target |-> target.fmt, blob |-> <<>>,
                            size |-> 0, pass_destroy |-> r.pass_destroy,
                            buf_create |-> r.buf_create, tag |-> 0,
                            data |-> <<>>, updates |-> <<>>,
                            push_constants_size |-> 0,
                            outcome |-> IF r.hit THEN "none" ELSE outcome,
                            violation |-> v, obj |-> 0, ubo |-> 0,
                            trace |-> <<>>, bindings |-> <<>>,
                            input |-> <<>>, groups |-> <<>>]
        /\ return_shader
        /\ UNCHANGED <<current_index, current_ident, gpu, shader_vars,
                       pass_vars>>

\* A call that respects the contract
Dispatch(op, sh, target, blend, load, vparams, progs) ==
    DispatchCall(op, sh, target, blend, load, vparams, progs, "none")

\* pl_dispatch_finish on a valid target: load_target is set when blending
\* or when the rect does not cover the whole target.
pl_dispatch_finish(sh, target, blend, full, progs) ==
    Dispatch("finish", sh, target, blend, (~blend.null) \/ ~full,
             NullVParams, progs)

\* pl_dispatch_compute: a compute shader without target
pl_dispatch_compute(sh, progs) ==
    /\ pl_shader_is_compute(sh)
    /\ Dispatch("compute", sh, NoTarget, NullBlend, FALSE, NullVParams, progs)

\* pl_dispatch_vertex: a raster shader with caller-supplied vertices
pl_dispatch_vertex(sh, target, blend, vparams, progs) ==
    /\ ~pl_shader_is_compute(sh)
    /\ Dispatch("vertex", sh, target, blend, TRUE, vparams, progs)

\* pl_dispatch_save with an output buffer
Save ==
    /\ Alive
    /\ last' = [NoCall EXCEPT !.op = "save",
                              !.blob = pl_dispatch_save(passes, cached_passes),
                              !.size = save_size(passes, cached_passes)]
    /\ UNCHANGED <<passes, cached_passes, max_passes, current_index,
                   current_ident, shaders, held, gpu, shader_vars, pass_vars>>

\* pl_dispatch_save(dp, NULL): the dry run that only returns the size
SaveDryRun ==
    /\ Alive
    /\ last' = [NoCall EXCEPT !.op = "save_size",
                              !.size = save_size(passes, cached_passes)]
    /\ UNCHANGED <<passes, cached_passes, max_passes, current_index,
                   current_ident, shaders, held, gpu, shader_vars, pass_vars>>

\* Mutant: a load throws the compiled passes away
pl_dispatch_load_action_DropPasses(blob, tail) ==
    LET r == pl_dispatch_load(<<>>, cached_passes, blob \o tail)
    IN  /\ Alive
        /\ passes' = <<>>
        /\ cached_passes' = r.cached_passes
        /\ last' = [NoCall EXCEPT
                      !.op = IF r.aborted THEN "load_abort" ELSE "load",
                      !.blob = blob, !.pass_destroy = Len(passes)]
        /\ UNCHANGED <<max_passes, current_index, current_ident, shaders,
                       held, gpu, shader_vars, pass_vars>>

\* pl_dispatch_load of a blob; tail is the memory behind the caller's buffer
pl_dispatch_load_action(blob, tail) ==
    LET r == pl_dispatch_load(passes, cached_passes, blob \o tail)
    IN  /\ Alive
        /\ cached_passes' = r.cached_passes
        /\ last' = [NoCall EXCEPT
                      !.op = IF r.aborted THEN "load_abort" ELSE "load",
                      !.blob = blob]
        /\ UNCHANGED <<passes, max_passes, current_index, current_ident,
                       shaders, held, gpu, shader_vars, pass_vars>>

\* ------------------------------------------- specification: lookup, eviction

\* The calls explored: two target formats for pl_dispatch_finish, and a
\* blended custom-vertex draw (which differs from them in blend, load_target,
\* vertex type and stride).
FinishInputs ==
    { [fmt |-> 1, blend |-> NullBlend, full |-> TRUE],
      [fmt |-> 2, blend |-> NullBlend, full |-> TRUE] }

VertexInputs ==
    { [fmt |-> 1, blend |-> AlphaBlend,
       vparams |-> [null |-> FALSE, vertex_type |-> "triangle_list",
                    vertex_stride |-> 16]] }

DispatchFinish ==
    \E sh \in Shaders, in \in FinishInputs :
        pl_dispatch_finish(sh, [fmt |-> in.fmt], in.blend, in.full, {<<>>})

DispatchCompute ==
    \E sh \in Shaders : pl_dispatch_compute(sh, {<<>>})

DispatchVertex ==
    \E sh \in Shaders, in \in VertexInputs :
        pl_dispatch_vertex(sh, [fmt |-> in.fmt], in.blend, in.vparams, {<<>>})

\* Whether the last operation was a dispatch that built a record without pass
BuildFailed(l) ==
    l.op \in {"finish", "compute", "vertex"} /\ ~l.hit /\ l.pass_run = 0

\* History: the signatures for which a pass construction has failed so far
TrackFailed ==
    failed_sigs' = failed_sigs \cup
                     (IF BuildFailed(last') THEN {last'.sig} ELSE {})

Next ==
    \/ ResetFrame /\ TrackFailed /\ UNCHANGED <<streak, after_load, frame_tags, gpu_objects>>
    \/ DispatchFinish /\ TrackFailed /\ UNCHANGED <<streak, after_load, frame_tags, gpu_objects>>
    \/ DispatchCompute /\ TrackFailed /\ UNCHANGED <<streak, after_load, frame_tags, gpu_objects>>
    \/ DispatchVertex /\ TrackFailed /\ UNCHANGED <<streak, after_load, frame_tags, gpu_objects>>

Spec == Init /\ [][Next]_vars

\* -------------------------------- specification: sequences of equal calls

\* What a pl_dispatch_finish call is compared by in a sequence of equal calls:
\* signature, target format, blend parameters and load_target
CallKey(l) == <<l.sig, l.target, l.fresh.blend_params, l.fresh.load_target>>

\* History: a sequence starts with a pl_dispatch_finish that finds no record,
\* goes on through pl_dispatch_reset_frame and pl_dispatch_finish calls of the
\* same key, and ends with any other call. It counts its calls and the
\* pl_pass_create and pl_pass_run calls they issue.
TrackStreak ==
    streak' =
        IF last'.op = "reset_frame"
        THEN IF streak.calls = 0 THEN streak
             ELSE [streak EXCEPT !.frames = 1]
        ELSE IF last'.op # "finish" THEN NoStreak
        ELSE IF streak.calls > 0 /\ streak.key = CallKey(last')
        THEN IF streak.calls < MaxStreak
             THEN [streak EXCEPT
                     !.calls = @ + 1,
                     !.creates = @ + last'.pass_create,
                     !.runs = @ + last'.pass_run]
             ELSE NoStreak
        ELSE IF ~last'.hit
        THEN [key |-> CallKey(last'), calls |-> 1,
              creates |-> last'.pass_create, runs |-> last'.pass_run,
              ok |-> last'.ret, frames |-> 0]
        ELSE NoStreak

NextStreak ==
    \/ ResetFrame /\ TrackStreak /\ UNCHANGED <<failed_sigs, after_load, frame_tags, gpu_objects>>
    \/ DispatchFinish /\ TrackStreak /\ UNCHANGED <<failed_sigs, after_load, frame_tags, gpu_objects>>
    \/ DispatchCompute /\ TrackStreak /\ UNCHANGED <<failed_sigs, after_load, frame_tags, gpu_objects>>
    \/ DispatchVertex /\ TrackStreak /\ UNCHANGED <<failed_sigs, after_load, frame_tags, gpu_objects>>

SpecStreak == Init /\ [][NextStreak]_vars

\* ------------------------------ specification: the persistent program cache

\* The calls of this specification: the compute shader onto one target, the
\* raster shader onto targets of two formats
FinishInputsIO ==
    { [sig |-> 1, fmt |-> 1], [sig |-> 2, fmt |-> 1], [sig |-> 2, fmt |-> 2] }

\* pl_dispatch_finish on a backend whose passes expose a cached program
DispatchFinishIO ==
    \E in \in FinishInputsIO :
        pl_dispatch_finish([sig |-> in.sig, is_compute |-> (in.sig = 1)],
                           [fmt |-> in.fmt], NullBlend, TRUE,
                           {CompiledProgram(in.sig)})

\* A blob written by an earlier process: one program per signature
StoredBlob ==
    MakeBlob(<<[signature |-> Enc64(2), cached_program |-> <<34>>],
               [signature |-> Enc64(1), cached_program |-> <<33>>]>>)

\* The memory behind the caller's buffer
Tails == { <<>>, <<7>> }

\* Blobs that are not a version-1 dispatch cache: StoredBlob with the magic
\* bytes 'PLDX', and StoredBlob with version 2
BadMagicBlob == <<80, 76, 68, 88>> \o SubSeq(StoredBlob, 5, Len(StoredBlob))

BadVersionBlob ==
    cache_magic \o Enc(2, 4) \o SubSeq(StoredBlob, 9, Len(StoredBlob))

\* The caller loads what it has just saved from this root, or StoredBlob
Load ==
    \E blob \in {pl_dispatch_save(passes, cached_passes), StoredBlob},
       tail \in Tails :
        pl_dispatch_load_action(blob, tail)

\* The caller loads whatever it found on disk
LoadAny ==
    \E blob \in {pl_dispatch_save(passes, cached_passes), StoredBlob,
                 BadMagicBlob, BadVersionBlob},
       tail \in Tails :
        pl_dispatch_load_action(blob, tail)

\* pl_dispatch_load goes on to read the entries of this blob
Accepted(blob) ==
    Read(blob, 1, 4) = cache_magic /\ Read(blob, 5, 4) = cache_version

Bump(n) == IF n < 2 THEN n + 1 ELSE 2

\* History: the entries of the blob read last, and per signature the
\* pl_pass_create calls since then and those that were given a cached
\* program (both counted up to 2).
TrackLoad ==
    after_load' =
        IF last'.op = "load" /\ Accepted(last'.blob)
        THEN [loaded |-> TRUE, entries |-> BlobEntries(last'.blob, 13),
              creates |-> [s \in Sigs |-> 0], given |-> [s \in Sigs |-> 0]]
        ELSE IF after_load.loaded /\ last'.pass_create = 1
        THEN [after_load EXCEPT
                !.creates[last'.sig] = Bump(@),
                !.given[last'.sig] =
                    IF last'.cached_program # <<>> THEN Bump(@) ELSE @]
        ELSE after_load

NextIO ==
    \/ ResetFrame /\ TrackLoad /\ UNCHANGED <<failed_sigs, streak, frame_tags, gpu_objects>>
    \/ DispatchFinishIO /\ TrackLoad /\ UNCHANGED <<failed_sigs, streak, frame_tags, gpu_objects>>
    \/ Save /\ TrackLoad /\ UNCHANGED <<failed_sigs, streak, frame_tags, gpu_objects>>
    \/ Load /\ TrackLoad /\ UNCHANGED <<failed_sigs, streak, frame_tags, gpu_objects>>

SpecIO == Init /\ [][NextIO]_vars

\* ------------------------- specification: save and load as seen by a caller

\* pl_dispatch_finish of an accumulator the caller got from begin, filled
\* with either shader, onto the target of format 1
DispatchHeld ==
    /\ held # {}
    /\ \E sh \in Shaders :
        pl_dispatch_finish(sh, [fmt |-> 1], NullBlend, TRUE,
                           {CompiledProgram(pl_shader_signature(sh))})

NextCache ==
    \/ ResetFrame /\ UNCHANGED <<failed_sigs, streak, after_load, frame_tags, gpu_objects>>
    \/ pl_dispatch_begin /\ UNCHANGED <<failed_sigs, streak, after_load, frame_tags, gpu_objects>>
    \/ pl_dispatch_abort /\ UNCHANGED <<failed_sigs, streak, after_load, frame_tags, gpu_objects>>
    \/ DispatchHeld /\ UNCHANGED <<failed_sigs, streak, after_load, frame_tags, gpu_objects>>
    \/ Save /\ UNCHANGED <<failed_sigs, streak, after_load, frame_tags, gpu_objects>>
    \/ SaveDryRun /\ UNCHANGED <<failed_sigs, streak, after_load, frame_tags, gpu_objects>>
    \/ LoadAny /\ UNCHANGED <<failed_sigs, streak, after_load, frame_tags, gpu_objects>>

SpecCache == Init /\ [][NextCache]_vars

\* ------------------------------ specification: accumulators and their tags

\* pl_dispatch_begin_ex with either value of unique
Begin == \E unique \in BOOLEAN : pl_dispatch_begin_ex(unique)

\* History: the identity tags that begin(unique) has given out since the
\* last reset_frame
TrackTags ==
    frame_tags' =
        IF last'.op = "reset_frame" THEN {}
        ELSE IF last'.op = "begin_unique" THEN frame_tags \cup {last'.tag}
        ELSE frame_tags

NextIdent ==
    \/ ResetFrame /\ TrackTags /\ UNCHANGED <<failed_sigs, streak, after_load, gpu_objects>>
    \/ Begin /\ TrackTags /\ UNCHANGED <<failed_sigs, streak, after_load, gpu_objects>>
    \/ pl_dispatch_abort /\ TrackTags
           /\ UNCHANGED <<failed_sigs, streak, after_load, gpu_objects>>

SpecIdent == Init /\ [][NextIdent]_vars

\* ----------------------------------- specification: frames without a bound

\* The caller ends frames for as long as it likes and dispatches the compute
\* shader now and then
NextFrames ==
    \/ pl_dispatch_reset_frame
           /\ UNCHANGED <<failed_sigs, streak, after_load, frame_tags, gpu_objects>>
    \/ DispatchCompute
           /\ UNCHANGED <<failed_sigs, streak, after_load, frame_tags, gpu_objects>>

SpecFrames == Init /\ [][NextFrames]_vars

\* ------------------------------- specification: variables of one shader

\* A root on some backend, and the raster shader with some list of variables
InitVars ==
    /\ gpu \in Gpus
    /\ shader_vars \in ShaderVars
    /\ pass_vars = <<>>
    /\ passes = <<>>
    /\ cached_passes = <<>>
    /\ max_passes = MAX_PASSES
    /\ current_index = 0
    /\ current_ident = 0
    /\ shaders = <<>>
    /\ held = {}
    /\ last = NoCall
    /\ failed_sigs = {}
    /\ streak = NoStreak
    /\ after_load = NotLoaded
    /\ frame_tags = {}
    /\ gpu_objects = NoObjects

\* The raster shader of this specification and its target
VarsShader == [sig |-> 2, is_compute |-> FALSE]

\* pl_dispatch_finish of the raster shader onto the whole target of format
\* 1, its variables holding data: find_pass places the variables when it
\* builds the record, then update_pass_var runs for every variable unless
\* the record has no pass.
DispatchVars ==
    \E data \in [1 .. Len(shader_vars) -> VarData],
       pl \in {place_vars(gpu, shader_vars)} :
        LET target == [fmt |-> 1]
            hit == find_index(passes, VarsShader, target, NullBlend, FALSE,
                              NullVParams) # 0
            outcomes == IF hit THEN {"ok"}
                        ELSE IF ~pl.ok THEN {"placement_failed"}
                        ELSE {"ok", "create_failed"}
                             \cup (IF pl.ubo_size > 0 THEN {"ubo_failed"}
                                   ELSE {})
        IN  \E outcome \in outcomes :
            \E r \in {find_pass(passes, cached_passes, max_passes,
                                current_index, VarsShader, target, NullBlend,
                                FALSE, NullVParams, outcome, <<>>, passes)} :
            \E upd \in {[i \in 1 .. Len(shader_vars) |->
                            update_pass_var(data[i],
                                (IF hit THEN pass_vars ELSE pl.pvs)[i])]} :
                /\ Alive
                /\ passes' = r.passes
                /\ cached_passes' = r.cached_passes
                /\ max_passes' = r.max_passes
                /\ pass_vars' = IF r.pass.null
                                THEN (IF hit THEN pass_vars ELSE pl.pvs)
                                ELSE [i \in 1 .. Len(shader_vars) |-> upd[i].pv]
                /\ last' = [NoCall EXCEPT
                             !.op = "finish", !.sig = 2, !.hit = r.hit,
                             !.pass_create = r.pass_create,
                             !.pass_run = IF r.pass.null THEN 0 ELSE 1,
                             !.ret = ~r.pass.null,
                             !.target = 1,
                             !.buf_create =
                                 IF ~hit /\ pl.ok /\ pl.ubo_size > 0
                                 THEN 1 ELSE 0,
                             !.data = data,
                             !.updates =
                                 IF r.pass.null THEN <<>>
                                 ELSE [i \in 1 .. Len(shader_vars) |->
                                          upd[i].update],
                             !.push_constants_size =
                                 IF r.pass_create = 1
                                 THEN pl.push_constants_size ELSE 0,
                             !.outcome = IF hit THEN "none" ELSE outcome]
                /\ return_shader
                /\ UNCHANGED <<current_index, current_ident, gpu,
                               shader_vars>>

NextVars ==
    \/ DispatchVars
           /\ UNCHANGED <<failed_sigs, streak, after_load, frame_tags, gpu_objects>>

SpecVars == InitVars /\ [][NextVars]_vars

\* ------------------------------------- specification: the eviction pass

\* Most records an eviction pass is given: one above a capacity that has
\* doubled once
MaxEvictLen == 2 * MAX_PASSES + 1

\* Frame indices at which the pass runs: the frames up to where a record of
\* frame 0 has become evictable
EvictFrames == 0 .. MIN_AGE + 1

\* last_index of a record at frame cur: a frame up to cur, or IndexMod - 1
\* for a record last used in the frame before current_index wrapped round
LastIndices(cur) == (0 .. cur) \cup {IndexMod - 1}

\* Pass arrays of failed records with pairwise different signatures
PassArrays(cur) ==
    UNION { { [i \in 1 .. n |-> [signature |-> i, pass |-> NullPass,
                                  last_index |-> li[i]]] :
                li \in [1 .. n -> LastIndices(cur)] } :
            n \in 0 .. MaxEvictLen }

\* A root at the moment find_pass calls garbage_collect_passes
InitEvict ==
    /\ current_index \in EvictFrames
    /\ passes \in PassArrays(current_index)
    /\ max_passes \in {MAX_PASSES, 2 * MAX_PASSES}
    /\ Len(passes) <= max_passes + 1
    /\ cached_passes = <<>>
    /\ current_ident = 0
    /\ shaders = <<>>
    /\ held = {}
    /\ gpu = DefaultGpu
    /\ shader_vars = <<>>
    /\ pass_vars = <<>>
    /\ last = NoCall
    /\ failed_sigs = {}
    /\ streak = NoStreak
    /\ after_load = NotLoaded
    /\ frame_tags = {}
    /\ gpu_objects = NoObjects

\* One call of garbage_collect_passes
Evict ==
    \E q \in qsort(passes) :
        LET gc == garbage_collect_passes(passes, max_passes, current_index, q)
        IN  /\ last.op # "gc"
            /\ passes' = gc.passes
            /\ max_passes' = gc.max_passes
            /\ last' = [NoCall EXCEPT !.op = "gc", !.pass_destroy = gc.evicted]
            /\ UNCHANGED <<cached_passes, current_index, current_ident,
                           shaders, held, gpu, shader_vars, pass_vars>>

NextEvict ==
    \/ Evict /\ UNCHANGED <<failed_sigs, streak, after_load, frame_tags, gpu_objects>>

SpecEvict == InitEvict /\ [][NextEvict]_vars

\* ------------------------------------------------------------------ claims

\* The live record without pass (failed construction) of a signature
HasSentinel(sig) ==
    \E i \in 1 .. Len(passes) :
        passes[i].signature = sig /\ passes[i].pass.null

\* C1 as stated: once the construction of a pass has failed for a signature,
\* no later dispatch issues pl_pass_create for that signature.
C1_NeverRecreated ==
    [][last'.pass_create = 1 => last'.sig \notin failed_sigs]_vars

\* C1 amended: while the failed record of a signature is live, no dispatch
\* issues pl_pass_create for that signature (the record is subject to
\* eviction like any other, after which the pass is built again).
C1_StickyWhileLive ==
    [][\A sig \in Sigs :
          HasSentinel(sig) => ~(last'.pass_create = 1 /\ last'.sig = sig)]_vars

\* A dispatch has just been answered by the failed record of its signature,
\* in a later frame than the failure.
C1_Witness ==
    /\ last.op \in {"finish", "compute", "vertex"}
    /\ last.hit /\ last.pass_run = 0 /\ last.pass_create = 0
    /\ HasSentinel(last.sig)
    /\ last.sig \in failed_sigs
    /\ current_index > 0

\* C2 as stated: no two live records have the same signature.
C2_UniqueSignature ==
    \A i, j \in 1 .. Len(passes) :
        i # j => passes[i].signature # passes[j].signature

\* The parameters find_pass compares between a record and a query
SameKey(a, b) ==
    /\ a.signature = b.signature
    /\ a.pass.null = b.pass.null
    /\ a.pass.type = b.pass.type
    /\ a.pass.fmt = b.pass.fmt
    /\ a.pass.blend_params = b.pass.blend_params
    /\ a.pass.load_target = b.pass.load_target
    /\ a.pass.vertex_type = b.pass.vertex_type
    /\ a.pass.vertex_stride = b.pass.vertex_stride

\* C2 amended: no two live records have the same signature together with the
\* same target format, blend parameters, load_target, vertex type and vertex
\* stride; a signature has at most one record without pass, and a compute
\* signature has at most one record.
C2_UniqueKey ==
    \A i, j \in 1 .. Len(passes) :
        i # j =>
            /\ ~SameKey(passes[i], passes[j])
            /\ passes[i].signature = passes[j].signature =>
                   /\ passes[i].pass.type # "compute"
                   /\ ~(passes[i].pass.null /\ passes[j].pass.null)

\* Two records of one signature, built for targets of different format, are
\* live, and so are two that differ in blend and load_target.
C2_Witness ==
    /\ \E i, j \in 1 .. Len(passes) :
        /\ passes[i].signature = passes[j].signature
        /\ ~passes[i].pass.null /\ ~passes[j].pass.null
        /\ passes[i].pass.fmt # passes[j].pass.fmt
    /\ \E i, j \in 1 .. Len(passes) :
        /\ passes[i].signature = passes[j].signature
        /\ ~passes[i].pass.null /\ ~passes[j].pass.null
        /\ passes[i].pass.load_target # passes[j].pass.load_target
        /\ passes[i].pass.blend_params # passes[j].pass.blend_params

\* C3 as stated: over a sequence of pl_dispatch_finish calls of one signature
\* and equal target parameters, separated by pl_dispatch_reset_frame calls
\* only, pl_pass_create is invoked exactly once and pl_pass_run once per call.
C3_CreateOnceRunEach ==
    streak.calls > 0 => streak.creates = 1 /\ streak.runs = streak.calls

\* C3 amended: the same, provided the first call builds its pass; when that
\* construction fails, pl_pass_create is invoked at most once (by the first
\* call) and pl_pass_run never.
C3_CreateOnceRunEachIfBuilt ==
    streak.calls > 0 =>
        IF streak.ok
        THEN streak.creates = 1 /\ streak.runs = streak.calls
        ELSE streak.creates <= 1 /\ streak.runs = 0

\* A sequence of three calls across a frame boundary whose first call built
\* the pass.
C3_Witness ==
    /\ streak.calls = MaxStreak /\ streak.ok /\ streak.frames = 1
    /\ last.op = "finish" /\ last.hit /\ current_index > 0

\* C4: a dispatch that reuses a record with a pass would have built a pass
\* with the same generated source and pass parameters.
C4_ReuseSameParams ==
    (last.hit /\ last.pass_run = 1) => last.used = last.fresh

\* ---- program cache claims (checked under SpecIO) ----

\* The blob loaded last has an entry for this signature
InLoadedBlob(sig) ==
    \E i \in 1 .. Len(after_load.entries) :
        after_load.entries[i].signature = Enc64(sig)

\* C5: after a load, the first pl_pass_create for a signature that has an
\* entry in the loaded blob is given exactly the program bytes of that entry.
C5_FirstCreateGetsBlobBytes ==
    (/\ after_load.loaded
     /\ last.pass_create = 1
     /\ after_load.creates[last.sig] = 1
     /\ InLoadedBlob(last.sig))
    => \E i \in 1 .. Len(after_load.entries) :
           /\ after_load.entries[i].signature = Enc64(last.sig)
           /\ after_load.entries[i].cached_program = last.cached_program

\* C6 as stated: after a load, pl_pass_create is called at most once for
\* each signature that has an entry in the loaded blob.
C6_CreateAtMostOnce ==
    after_load.loaded
    => \A s \in Sigs : InLoadedBlob(s) => after_load.creates[s] <= 1

\* C6, amended: after a load, at most one pl_pass_create call per signature
\* of the loaded blob is given a cached program; the cached entry is taken
\* out when the first record for its signature is built, and later builds of
\* that signature (another target format, or after eviction) compile anew.
C6_GivenAtMostOnce ==
    after_load.loaded
    => \A s \in Sigs : InLoadedBlob(s) => after_load.given[s] <= 1

\* C6 witness: a signature of the loaded blob was built twice after the
\* load, and only one of the two builds was given a cached program.
C6_Witness ==
    /\ after_load.loaded
    /\ \E s \in Sigs :
        /\ InLoadedBlob(s)
        /\ after_load.creates[s] = 2
        /\ after_load.given[s] = 1

\* The cached entries that carry this signature
CachedFor(cs, sg) == SelectSeq(cs, LAMBDA e : e.signature = sg)

\* Some record of the pass array carries this signature
IsLive(ps, sg) == \E n \in 1 .. Len(ps) : Enc64(ps[n].signature) = sg

\* C7: a load leaves the cached entries of every signature that has a live
\* record as they were, and every entry of the blob whose signature has no
\* live record is read at its own offset, so that the last entry of each
\* such signature ends up as a cached entry with its own bytes.
C7_LiveSignatureSkipped ==
    [][last'.op = "load" =>
        LET entries == BlobEntries(last'.blob, 13)
        IN  \A i \in 1 .. Len(entries) :
                LET e == entries[i]
                IN  IF IsLive(passes, e.signature)
                    THEN CachedFor(cached_passes', e.signature)
                         = CachedFor(cached_passes, e.signature)
                    ELSE (/\ e.cached_program # <<>>
                          /\ \A j \in i + 1 .. Len(entries) :
                                entries[j].signature # e.signature)
                         => CachedFor(cached_passes', e.signature) = <<e>>
      ]_vars

\* How often an entry occurs among the entries of a blob
Occurrences(e, entries) ==
    Cardinality({ i \in 1 .. Len(entries) : entries[i] = e })

\* Two blobs are equal up to the order of their entries
SameUpToOrder(a, b) ==
    LET ea == BlobEntries(a, 13)
        eb == BlobEntries(b, 13)
    IN  /\ Read(a, 1, 12) = Read(b, 1, 12)
        /\ Len(a) = Len(b)
        /\ \A i \in 1 .. Len(ea) : Occurrences(ea[i], ea) = Occurrences(ea[i], eb)
        /\ \A i \in 1 .. Len(eb) : Occurrences(eb[i], ea) = Occurrences(eb[i], eb)

\* C8: saving a root, loading the blob into the same root and saving again
\* gives a blob equal to the first up to the order of its entries.
C8_SaveLoadSaveSameRoot ==
    [][(/\ last'.op = "load"
        /\ last'.blob = pl_dispatch_save(passes, cached_passes))
       => SameUpToOrder(pl_dispatch_save(passes', cached_passes'),
                        last'.blob)]_vars

\* C9: a blob written by save, loaded into a freshly created root and saved
\* from there, comes out byte for byte as it went in.
C9_FreshLoadSaveIdentity ==
    last.op = "save"
    => \A tail \in Tails :
           LET r == pl_dispatch_load(<<>>, <<>>, last.blob \o tail)
           IN  ~r.aborted
               => pl_dispatch_save(<<>>, r.cached_passes) = last.blob

\* C10: the entry_count field of a blob written by save is the number of
\* entries that follow the header.
C10_HeaderCountsEntries ==
    last.op = "save"
    => EntryCount(last.blob) = Len(BlobEntries(last.blob, 13))

\* C11: save without an output buffer returns the number of bytes that save
\* with a buffer writes for the same root state, and neither call changes
\* the records, the cached entries, the capacity bound or the frame index.
C11_DryRunSizeIsWrittenSize ==
    [][last'.op \in {"save", "save_size"} =>
        /\ last'.size = Len(pl_dispatch_save(passes, cached_passes))
        /\ last'.op = "save" => last'.size = Len(last'.blob)
        /\ UNCHANGED <<passes, cached_passes, max_passes, current_index>>
      ]_vars

\* C11 witness: a dry run on a root that holds a failed record, a compiled
\* pass with a program and a loaded program not yet compiled
C11_Witness ==
    /\ last.op = "save_size"
    /\ last.size > 12
    /\ cached_passes # <<>>
    /\ \E i, j \in 1 .. Len(passes) :
        passes[i].pass.null /\ ~passes[j].pass.null

\* C12: load of a blob whose magic is not 'PLDP' or whose version is not 1
\* returns with the records, the cached entries, the capacity bound and the
\* frame index unchanged, whatever follows the header.
C12_RejectedBlobChangesNothing ==
    [][(/\ last'.op \in {"load", "load_abort"}
        /\ ~Accepted(last'.blob))
       => /\ last'.op = "load"
          /\ UNCHANGED <<passes, cached_passes, max_passes, current_index>>
      ]_vars

\* C12 witness: a blob with the right magic, version 2 and two entries
\* behind the header was loaded into a root that has records and cached
\* entries
C12_Witness ==
    /\ last.op = "load"
    /\ Read(last.blob, 1, 4) = cache_magic
    /\ Read(last.blob, 5, 4) # cache_version
    /\ Len(BlobEntries(last.blob, 13)) = 2
    /\ passes # <<>>
    /\ cached_passes # <<>>

\* C13: load, whatever the blob, issues no pass_create, pass_run,
\* pass_destroy or buf_create and leaves the records, the capacity bound, the
\* frame index and the pool of accumulators as they were; only the cached
\* entries may change.
C13_LoadOnlySeedsCache ==
    [][last'.op \in {"load", "load_abort"} =>
        /\ last'.pass_create = 0
        /\ last'.pass_run = 0
        /\ last'.pass_destroy = 0
        /\ last'.buf_create = 0
        /\ UNCHANGED <<passes, max_passes, current_index, current_ident,
                       shaders, held>>
      ]_vars

\* C13 witness: a load that changed the cached entries of a root that has
\* records, a pooled accumulator and a frame index above 0
C13_Witness ==
    /\ last.op = "load"
    /\ Accepted(last.blob)
    /\ cached_passes # <<>>
    /\ passes # <<>>
    /\ shaders # <<>>
    /\ current_index > 0

\* C14: a cached entry stays in dp->cached_passes with its bytes through
\* every reset_frame, save and dispatch (evicting or not) that does not build
\* a record for the entry's own signature, and every save emits it.
C14_CachedEntryStays ==
    [][\A c \in 1 .. Len(cached_passes) :
          (\/ last'.op \in {"reset_frame", "save"}
           \/ /\ last'.op = "finish"
              /\ \/ last'.hit
                 \/ Enc64(last'.sig) # cached_passes[c].signature)
          => /\ \E d \in 1 .. Len(cached_passes') :
                    cached_passes'[d] = cached_passes[c]
             /\ last'.op = "save" =>
                    \E e \in 1 .. Len(BlobEntries(last'.blob, 13)) :
                        BlobEntries(last'.blob, 13)[e] = cached_passes[c]
      ]_vars

\* C14 witness: a save emitted the entry loaded for signature 1 after a
\* record for signature 2 had been built from its own entry and a frame had
\* passed
C14_Witness ==
    /\ last.op = "save"
    /\ current_index > 0
    /\ \E c \in 1 .. Len(cached_passes) :
        /\ cached_passes[c] = [signature |-> Enc64(1), cached_program |-> <<33>>]
        /\ \E e \in 1 .. Len(BlobEntries(last.blob, 13)) :
            BlobEntries(last.blob, 13)[e] = cached_passes[c]
    /\ \E i \in 1 .. Len(passes) :
        passes[i].signature = 2 /\ ~passes[i].pass.null
    /\ after_load.given[2] = 1

\* The records of ps that are not in qs
Evicted(ps, qs) ==
    { ps[i] : i \in 1 .. Len(ps) } \ { qs[i] : i \in 1 .. Len(qs) }

\* C15 as stated: after an eviction pass at least half of the records that
\* were live before it are still live, and no record younger than MIN_AGE
\* has been evicted.
C15_HalfRemain ==
    [][last'.op = "gc" =>
        /\ 2 * Len(passes') >= Len(passes)
        /\ \A p \in Evicted(passes, passes') :
               pass_age(current_index, p) >= MIN_AGE
      ]_vars

\* C15, amended: after an eviction pass over n records at least n / 2
\* rounded down are still live (one less than half when n is odd), and no
\* record younger than MIN_AGE has been evicted.
C15_HalfRoundedDownRemain ==
    [][last'.op = "gc" =>
        /\ Len(passes') >= Len(passes) \div 2
        /\ Len(passes') + last'.pass_destroy = Len(passes)
        /\ \A p \in Evicted(passes, passes') :
               pass_age(current_index, p) >= MIN_AGE
      ]_vars

\* C15 witness: an eviction pass over an odd number of records destroyed
\* more than half of them
C15_Witness ==
    /\ last.op = "gc"
    /\ last.pass_destroy > Len(passes)
    /\ Len(passes) > 0

\* C16: between two reset_frame calls every begin(unique) returns an
\* accumulator whose identity tag differs from the tag of every other
\* accumulator that begin(unique) returned in that interval.
C16_UniqueTagsInFrame ==
    [][last'.op = "begin_unique" => last'.tag \notin frame_tags]_vars

\* C17: the frame index is strictly greater after every reset_frame than
\* before it, so that the age of a record (frame index minus the index of
\* its last use) is never negative.
C17_FrameIndexGrows ==
    [][/\ last'.op = "reset_frame" => current_index' > current_index
       /\ \A i \in 1 .. Len(passes') :
              pass_age(current_index', passes'[i]) >= 0
      ]_vars

\* ---- variable claims (checked under SpecVars) ----

\* C18: every record with a non-empty pass has a placement of pushc, ubo or
\* global for each variable of its shader, and update_pass_var never takes
\* the branch that aborts on a variable without placement, on every backend.
C18_EveryVariablePlaced ==
    /\ \A r \in 1 .. Len(passes) :
        ~passes[r].pass.null =>
            /\ Len(pass_vars) = Len(shader_vars)
            /\ \A i \in 1 .. Len(pass_vars) :
                   pass_vars[i].type \in {"pushc", "ubo", "global"}
    /\ \A i \in 1 .. Len(last.updates) : last.updates[i] # "abort"

\* C18 witness: a pass was built on a backend without global uniforms, one
\* variable in push constants and one in the uniform buffer
C18_Witness ==
    /\ ~gpu.input_variables
    /\ \E r \in 1 .. Len(passes) : ~passes[r].pass.null
    /\ \E i, j \in 1 .. Len(pass_vars) :
        pass_vars[i].type = "pushc" /\ pass_vars[j].type = "ubo"
    /\ last.pass_run = 1

\* C19: the push-constant size handed to pl_pass_create is a multiple of 4
\* and at most the backend's max_pushc_size, for every budget and every list
\* of variables.
C19_PushConstantsFitBudget ==
    (last.op = "finish" /\ last.pass_create = 1)
    => /\ last.push_constants_size % 4 = 0
       /\ last.push_constants_size <= gpu.max_pushc_size

\* C19 witness: a pass was created on a backend whose budget of 6 bytes is
\* no multiple of 4; one variable took 4 bytes of push constants and the
\* other did not fit
C19_Witness ==
    /\ last.op = "finish"
    /\ last.pass_create = 1
    /\ gpu.max_pushc_size = 6
    /\ last.push_constants_size = 4
    /\ \E i \in 1 .. Len(pass_vars) : pass_vars[i].type # "pushc"

\* The bytes the record had cached for variable i when the dispatch began:
\* none when the dispatch built the record
CachedBefore(i) == IF last'.hit THEN pass_vars[i].cached ELSE <<>>

\* C20: in a dispatch that reaches its pass, an update for a variable (a
\* var_update entry, a buffer write or a copy into the push constants) is
\* issued if and only if the record holds no cached bytes for the variable
\* or the new bytes differ from the cached ones.
C20_UpdateIffChanged ==
    [][(last'.op = "finish" /\ last'.pass_run = 1) =>
        \A i \in 1 .. Len(shader_vars) :
            (last'.updates[i] # "none")
            <=> (CachedBefore(i) = <<>> \/ last'.data[i] # CachedBefore(i))
      ]_vars

\* C20 witness: a dispatch that hit its record updated one variable, whose
\* bytes had changed, and skipped another, whose bytes had not
C20_Witness ==
    /\ last.op = "finish"
    /\ last.hit
    /\ last.pass_run = 1
    /\ \E i, j \in 1 .. Len(last.updates) :
        last.updates[i] = "none" /\ last.updates[j] # "none"

\* ---- construction failures and the capacity bound (checked under Spec) ----

\* The dispatch entry points
DispatchOps == {"finish", "compute", "vertex"}

\* The ways the construction of a pass fails
FailedOutcomes == {"placement_failed", "ubo_failed", "create_failed"}

\* C21: when variable placement, the creation of the uniform buffer or
\* pl_pass_create fails while a pass is built, a record with the signature
\* and without pass is appended to the live records (after the eviction
\* pass), the dispatch returns false and issues no pl_pass_run.
C21_FailedBuildLeavesSentinel ==
    [][(last'.op \in DispatchOps /\ last'.outcome \in FailedOutcomes) =>
        /\ ~last'.ret
        /\ last'.pass_run = 0
        /\ Len(passes') = Len(passes) - last'.pass_destroy + 1
        /\ passes'[Len(passes')] =
               [signature |-> last'.sig, pass |-> NullPass,
                last_index |-> current_index]
      ]_vars

\* C21 witness: pl_pass_create failed while another record was live; the
\* record without pass is the last of the live records
C21_Witness ==
    /\ last.op \in DispatchOps
    /\ last.outcome = "create_failed"
    /\ last.pass_create = 1
    /\ ~last.ret
    /\ Len(passes) >= 2
    /\ passes[Len(passes)].signature = last.sig
    /\ passes[Len(passes)].pass.null

\* ------------------------- specification: calls that break the contract

\* What is wrong with the accumulator or the parameters of a dispatch call,
\* among the things the entry point looks at
FinishViolations ==
    {"none", "failed", "immutable", "input_sig", "output_sig", "not_2d",
     "not_renderable", "not_storable", "output_size"}

ComputeViolations == {"none", "failed", "immutable", "input_sig", "has_vas"}

VertexViolations ==
    {"none", "failed", "immutable", "input_sig", "output_sig", "not_2d",
     "not_renderable", "has_vas", "pos_idx"}

\* A call that respects the contract of all three entry points: the
\* accumulator (sh->failed, sh->mutable, sh->res.input, sh->res.output, the
\* size pl_shader_output_size reports, 0 for none, sh->vas.num) and the
\* parameters (dimension and flags of the target, width of the target rect,
\* vertex_position_idx and num_vertex_attribs)
GoodCall ==
    [failed |-> FALSE, mutable |-> TRUE, input |-> "none", output |-> "color",
     dimension |-> 2, renderable |-> TRUE, storable |-> TRUE,
     out_w |-> 0, rect_w |-> 8, vas_num |-> 0,
     vertex_position_idx |-> 0, num_vertex_attribs |-> 1]

\* The call that differs from GoodCall by one violation
CallOf(v) ==
    IF v = "failed" THEN [GoodCall EXCEPT !.failed = TRUE]
    ELSE IF v = "immutable" THEN [GoodCall EXCEPT !.mutable = FALSE]
    ELSE IF v = "input_sig" THEN [GoodCall EXCEPT !.input = "color"]
    ELSE IF v = "output_sig" THEN [GoodCall EXCEPT !.output = "none"]
    ELSE IF v = "not_2d" THEN [GoodCall EXCEPT !.dimension = 3]
    ELSE IF v = "not_renderable" THEN [GoodCall EXCEPT !.renderable = FALSE]
    ELSE IF v = "not_storable" THEN [GoodCall EXCEPT !.storable = FALSE]
    ELSE IF v = "output_size" THEN [GoodCall EXCEPT !.out_w = 4]
    ELSE IF v = "has_vas" THEN [GoodCall EXCEPT !.vas_num = 1]
    ELSE IF v = "pos_idx" THEN [GoodCall EXCEPT !.vertex_position_idx = 1]
    ELSE GoodCall

\* Mutant: a shader that is not mutable is dispatched all the same
finish_checks_NoMutable(c, sh) ==
    /\ ~c.failed
    /\ c.input = "none" /\ c.output = "color"
    /\ c.dimension = 2 /\ c.renderable
    /\ ~(pl_shader_is_compute(sh) /\ ~c.storable)
    /\ ~(c.out_w # 0 /\ c.out_w # c.rect_w)

\* The tests at the head of pl_dispatch_finish: FALSE when one of them goes
\* to the error label
finish_checks(c, sh) ==
    /\ ~c.failed
    /\ c.mutable
    /\ c.input = "none" /\ c.output = "color"
    /\ c.dimension = 2 /\ c.renderable
    /\ ~(pl_shader_is_compute(sh) /\ ~c.storable)
    /\ ~(c.out_w # 0 /\ c.out_w # c.rect_w)

\* The tests at the head of pl_dispatch_compute; a shader with vertex
\* attributes is dispatched without the size of the rendering area
compute_checks(c, sh) ==
    /\ ~c.failed
    /\ c.mutable
    /\ c.input = "none"
    /\ pl_shader_is_compute(sh)
    /\ c.vas_num = 0

\* The tests at the head of pl_dispatch_vertex
vertex_checks(c, sh) ==
    /\ ~c.failed
    /\ c.mutable
    /\ c.input = "none" /\ c.output = "color"
    /\ c.dimension = 2 /\ c.renderable
    /\ ~pl_shader_is_compute(sh)
    /\ c.vas_num = 0
    /\ c.vertex_position_idx >= 0
    /\ c.vertex_position_idx < c.num_vertex_attribs

\* The error label reached before find_pass: ret is still false, the
\* accumulator goes back to the pool
Rejected(op, sh, v) ==
    /\ Alive
    /\ last' = [NoCall EXCEPT !.op = op, !.sig = pl_shader_signature(sh),
                              !.violation = v]
    /\ return_shader
    /\ UNCHANGED <<passes, cached_passes, max_passes, current_index,
                   current_ident, gpu, shader_vars, pass_vars>>

\* The three entry points called with an accumulator the caller holds,
\* either shader in it, and any one violation
CallFinish ==
    \E sh \in Shaders, in \in FinishInputs, v \in FinishViolations :
        /\ held # {}
        /\ IF finish_checks(CallOf(v), sh)
           THEN DispatchCall("finish", sh, [fmt |-> in.fmt], in.blend,
                             (~in.blend.null) \/ ~in.full, NullVParams,
                             {<<>>}, v)
           ELSE Rejected("finish", sh, v)

CallCompute ==
    \E sh \in Shaders, v \in ComputeViolations :
        /\ held # {}
        /\ IF compute_checks(CallOf(v), sh)
           THEN DispatchCall("compute", sh, NoTarget, NullBlend, FALSE,
                             NullVParams, {<<>>}, v)
           ELSE Rejected("compute", sh, v)

CallVertex ==
    \E sh \in Shaders, in \in VertexInputs, v \in VertexViolations :
        /\ held # {}
        /\ IF vertex_checks(CallOf(v), sh)
           THEN DispatchCall("vertex", sh, [fmt |-> in.fmt], in.blend,
                             TRUE, in.vparams, {<<>>}, v)
           ELSE Rejected("vertex", sh, v)

NextCalls ==
    \/ pl_dispatch_begin /\ UNCHANGED <<failed_sigs, streak, after_load, frame_tags, gpu_objects>>
    \/ pl_dispatch_abort /\ UNCHANGED <<failed_sigs, streak, after_load, frame_tags, gpu_objects>>
    \/ CallFinish /\ UNCHANGED <<failed_sigs, streak, after_load, frame_tags, gpu_objects>>
    \/ CallCompute /\ UNCHANGED <<failed_sigs, streak, after_load, frame_tags, gpu_objects>>
    \/ CallVertex /\ UNCHANGED <<failed_sigs, streak, after_load, frame_tags, gpu_objects>>

SpecCalls == Init /\ [][NextCalls]_vars

\* ---- claims about calls (checked under SpecCalls) ----

\* The signature belongs to a compute shader
IsComputeSig(sig) == \E sh \in Shaders : sh.sig = sig /\ sh.is_compute

\* What the contract of the entry point forbids: a failed or immutable
\* shader, a signature that does not match the entry point, a target that
\* is not 2D or not renderable, a compute shader with a target that is not
\* storable, an output size that differs from the target rect, a shader of
\* the wrong kind, a position attribute index out of range
ContractViolated(l) ==
    \/ l.violation \in {"failed", "immutable", "input_sig"}
    \/ /\ l.op \in {"finish", "vertex"}
       /\ l.violation \in {"output_sig", "not_2d", "not_renderable"}
    \/ l.op = "finish" /\ l.violation = "output_size"
    \/ l.op = "finish" /\ l.violation = "not_storable" /\ IsComputeSig(l.sig)
    \/ l.op = "vertex" /\ (l.violation = "pos_idx" \/ IsComputeSig(l.sig))
    \/ l.op = "compute" /\ ~IsComputeSig(l.sig)

\* C22: a dispatch call that violates the caller contract returns false,
\* issues neither pl_pass_create nor pl_pass_run and leaves the live
\* records, the cached entries and the capacity bound unchanged.
C22_ViolationRejected ==
    [][(last'.op \in DispatchOps /\ ContractViolated(last')) =>
        /\ ~last'.ret
        /\ last'.pass_create = 0
        /\ last'.pass_run = 0
        /\ UNCHANGED <<passes, cached_passes, max_passes>>
      ]_vars

\* C22 witness: pl_dispatch_vertex was called with a position index out of
\* range on a root that has records, and returned false
C22_Witness ==
    /\ last.op = "vertex"
    /\ last.violation = "pos_idx"
    /\ ~IsComputeSig(last.sig)
    /\ ~last.ret
    /\ passes # <<>>

\* How often an accumulator is in the pool
InPool(pool, id) == Cardinality({ i \in 1 .. Len(pool) : pool[i] = id })

\* C23: after a dispatch call, whatever it returns and whichever exit it
\* takes, the caller no longer holds the accumulator and the accumulator is
\* in the pool exactly once, on top, where the next begin takes it from.
C23_AccumulatorRecycled ==
    [][(last'.op \in DispatchOps /\ held # {}) =>
        \E a \in held :
            /\ held' = held \ {a}
            /\ InPool(shaders', a.id) = 1
            /\ shaders' = Append(shaders, a.id)
      ]_vars

\* C23 witness: begin has handed out again the accumulator that a failed
\* dispatch had put back into the pool
C23_Witness ==
    /\ last.op = "begin"
    /\ passes # <<>>
    /\ \A i \in 1 .. Len(passes) : passes[i].pass.null
    /\ shaders = <<>>
    /\ \E a \in held : a.id = 1

\* ----------------------------- specification: the objects a root owns

\* In this specification the raster shader has variables that go into a
\* uniform buffer and the compute shader has none
has_ubo(sh) == ~pl_shader_is_compute(sh)

\* The outcomes of a construction for a shader
OutcomesOf(sh) ==
    IF has_ubo(sh) THEN BuildOutcomes ELSE BuildOutcomes \ {"ubo_failed"}

\* pass->ubo and pass->pass of the record find_pass builds, given the
\* number n of handles the backend has given out: pl_buf_create is reached
\* when the placement succeeded and there is something to put in a buffer,
\* pl_pass_create when that buffer could be created
new_objects(sh, outcome, n) ==
    LET ubo == has_ubo(sh) /\ outcome \in {"ok", "create_failed"}
    IN  [ubo |-> IF ubo THEN n + 1 ELSE 0,
         obj |-> IF outcome # "ok" THEN 0
                 ELSE IF ubo THEN n + 2 ELSE n + 1,
         created |-> (IF ubo THEN 1 ELSE 0)
                     + (IF outcome = "ok" THEN 1 ELSE 0)]

\* The record find_pass has allocated, with the handles it stores in it
with_objects(rec, o) ==
    [signature |-> rec.signature, pass |-> rec.pass,
     last_index |-> rec.last_index, ubo |-> o.ubo, obj |-> o.obj]

\* Mutant: pass_destroy forgets the uniform buffer
pass_destroy_LeakUbo(rec) ==
    IF rec.obj # 0 THEN <<rec.obj>> ELSE <<>>

\* pass_destroy(dp, pass): the handles given to pl_buf_destroy and
\* pl_pass_destroy (both ignore NULL)
pass_destroy(rec) ==
    (IF rec.ubo # 0 THEN <<rec.ubo>> ELSE <<>>)
    \o (IF rec.obj # 0 THEN <<rec.obj>> ELSE <<>>)

\* pass_destroy for each record of a list
RECURSIVE destroy_each(_, _)
destroy_each(recs, i) ==
    IF i > Len(recs) THEN <<>>
    ELSE pass_destroy(recs[i]) \o destroy_each(recs, i + 1)

\* The backend after n more objects were created and the handles hs destroyed
Backend(b, n, hs) ==
    [created |-> b.created + n,
     destroyed |->
        [h \in 1 .. b.created + n |->
            (IF h <= b.created THEN b.destroyed[h] ELSE 0)
            + Cardinality({ i \in 1 .. Len(hs) : hs[i] = h })]]

\* pl_dispatch_finish of either shader onto a target of either format; the
\* record it builds owns what pl_buf_create and pl_pass_create returned,
\* and what the eviction pass gives to pass_destroy is destroyed
DispatchOwn ==
    \E sh \in Shaders, target \in Targets :
        LET i == find_index(passes, sh, target, NullBlend, FALSE, NullVParams)
        IN  /\ Alive
            /\ i # 0 \/ Len(passes) <= MaxRecords
            /\ \E outcome \in IF i # 0 THEN {"ok"} ELSE OutcomesOf(sh),
                  q \in IF i # 0 \/ Len(passes) <= max_passes THEN {passes}
                        ELSE qsort(passes) :
               \E r \in {find_pass(passes, cached_passes, max_passes,
                                   current_index, sh, target, NullBlend,
                                   FALSE, NullVParams, outcome, <<>>, q)},
                  o \in {new_objects(sh, outcome, gpu_objects.created)} :
                /\ passes' =
                     [n \in 1 .. Len(r.passes) |->
                        IF "obj" \in DOMAIN r.passes[n] THEN r.passes[n]
                        ELSE with_objects(r.passes[n], o)]
                /\ cached_passes' = r.cached_passes
                /\ max_passes' = r.max_passes
                /\ gpu_objects' =
                     IF r.hit THEN gpu_objects
                     ELSE Backend(gpu_objects, o.created,
                                  destroy_each(r.destroyed, 1))
                /\ last' = [NoCall EXCEPT
                             !.op = "finish",
                             !.sig = pl_shader_signature(sh),
                             !.hit = r.hit,
                             !.pass_create = r.pass_create,
                             !.pass_run = IF r.pass.null THEN 0 ELSE 1,
                             !.ret = ~r.pass.null,
                             !.target = target.fmt,
                             !.pass_destroy = r.pass_destroy,
                             !.buf_create =
                                 IF r.hit \/ ~has_ubo(sh)
                                    \/ outcome = "placement_failed"
                                 THEN 0 ELSE 1,
                             !.outcome = IF r.hit THEN "none" ELSE outcome,
                             !.obj = IF r.pass.null THEN 0
                                     ELSE IF r.hit THEN passes[i].obj
                                     ELSE o.obj,
                             !.ubo = IF r.pass.null THEN 0
                                     ELSE IF r.hit THEN passes[i].ubo
                                     ELSE o.ubo]
                /\ return_shader
                /\ UNCHANGED <<current_index, current_ident, gpu,
                               shader_vars, pass_vars>>

\* pl_dispatch_destroy: pass_destroy for every record, the pooled
\* accumulators and the root itself are freed
pl_dispatch_destroy ==
    /\ Alive
    /\ passes' = <<>>
    /\ cached_passes' = <<>>
    /\ shaders' = <<>>
    /\ gpu_objects' = Backend(gpu_objects, 0, destroy_each(passes, 1))
    /\ last' = [NoCall EXCEPT !.op = "destroy",
                              !.pass_destroy = Len(passes)]
    /\ UNCHANGED <<max_passes, current_index, current_ident, held, gpu,
                   shader_vars, pass_vars>>

NextOwn ==
    \/ ResetFrame /\ UNCHANGED <<failed_sigs, streak, after_load, frame_tags, gpu_objects>>
    \/ DispatchOwn /\ UNCHANGED <<failed_sigs, streak, after_load, frame_tags>>
    \/ pl_dispatch_destroy
           /\ UNCHANGED <<failed_sigs, streak, after_load, frame_tags>>

SpecOwn == Init /\ [][NextOwn]_vars

\* ---- ownership claims (checked under SpecOwn) ----

\* The handles the backend has given out
Handles == 1 .. gpu_objects.created

\* The live records that hold a handle as their uniform buffer or their pass
Owners(h) ==
    { i \in 1 .. Len(passes) : passes[i].ubo = h \/ passes[i].obj = h }

\* C24: every pass and every uniform buffer the root has created is either
\* owned by exactly one live record and not destroyed, or owned by none and
\* destroyed exactly once; no two records own the same uniform buffer; after
\* pl_dispatch_destroy every object has been destroyed exactly once.
C24_EveryObjectDestroyedOnce ==
    /\ \A h \in Handles :
        \/ gpu_objects.destroyed[h] = 0 /\ Cardinality(Owners(h)) = 1
        \/ gpu_objects.destroyed[h] = 1 /\ Owners(h) = {}
    /\ \A i, j \in 1 .. Len(passes) :
        (i # j /\ passes[i].ubo # 0) => passes[i].ubo # passes[j].ubo
    /\ last.op = "destroy" =>
        \A h \in Handles : gpu_objects.destroyed[h] = 1

\* C24 witness: the root was destroyed with two records live, after an
\* eviction pass had destroyed a third one; the three records owned five
\* objects between them
C24_Witness ==
    /\ last.op = "destroy"
    /\ last.pass_destroy = 2
    /\ gpu_objects.created = 5
    /\ \A h \in Handles : gpu_objects.destroyed[h] = 1

\* C25: the pass a dispatch runs, and the uniform buffer it writes to,
\* belong to a record that is live when the dispatch call ends and have not
\* been destroyed, also when the call ran an eviction pass.
C25_UsedPassIsLive ==
    [][(last'.op = "finish" /\ last'.pass_run = 1) =>
        /\ last'.obj # 0
        /\ gpu_objects'.destroyed[last'.obj] = 0
        /\ last'.ubo # 0 => gpu_objects'.destroyed[last'.ubo] = 0
        /\ \E n \in 1 .. Len(passes') :
               /\ passes'[n].obj = last'.obj
               /\ passes'[n].ubo = last'.ubo
               /\ passes'[n].last_index = current_index
      ]_vars

\* C25 witness: a dispatch built a pass with a uniform buffer and ran it in
\* the call whose eviction pass destroyed a record
C25_Witness ==
    /\ last.op = "finish"
    /\ ~last.hit
    /\ last.pass_run = 1
    /\ last.pass_destroy > 0
    /\ last.ubo # 0

\* ---- eviction as a dispatch sees it (checked under Spec) ----

\* The records have pairwise different signatures
DistinctSignatures(ps) ==
    \A i, j \in 1 .. Len(ps) : i # j => ps[i].signature # ps[j].signature

\* C26: after MAX_PASSES + 1 shaders with pairwise different signatures have
\* been dispatched to an empty root within the first frame, the capacity
\* bound is 2 * MAX_PASSES (and all their records are live).
C26_DoublesAtBoundPlusOne ==
    (/\ current_index = 0
     /\ last.op \in DispatchOps /\ ~last.hit
     /\ Len(passes) = MAX_PASSES + 1
     /\ DistinctSignatures(passes))
    => max_passes = 2 * MAX_PASSES

\* C27: when the root holds exactly max_passes records, all of them last
\* used at least MIN_AGE frames ago, a dispatch of a shader with a new
\* signature destroys at least half of them, the least recently used ones,
\* inserts the new record and leaves the capacity bound as it is.
C27_EvictsAtBound ==
    [][(/\ Len(passes) = max_passes
        /\ \A i \in 1 .. Len(passes) :
               /\ pass_age(current_index, passes[i]) >= MIN_AGE
               /\ passes[i].signature # last'.sig
        /\ last'.op \in DispatchOps)
       => /\ 2 * last'.pass_destroy >= Len(passes)
          /\ \A e \in Evicted(passes, passes') :
                 \A n \in 1 .. Len(passes') : e.last_index <= passes'[n].last_index
          /\ passes'[Len(passes')].signature = last'.sig
          /\ max_passes' = max_passes
      ]_vars

\* A dispatch that ran the eviction pass: it found no record while more
\* than max_passes records were live
RanEviction == last'.op \in DispatchOps /\ ~last'.hit /\ Len(passes) > max_passes

\* C28: the capacity bound changes only in an eviction pass that evicts no
\* record, and then it doubles; an eviction pass that evicts a record leaves
\* it unchanged.
C28_BoundOnlyDoubles ==
    [][/\ max_passes' # max_passes =>
            /\ RanEviction
            /\ last'.pass_destroy = 0
            /\ Len(passes') = Len(passes) + 1
       /\ (RanEviction /\ last'.pass_destroy = 0) =>
            max_passes' = 2 * max_passes
       /\ (RanEviction /\ last'.pass_destroy > 0) =>
            max_passes' = max_passes
      ]_vars

\* C28 witness: an eviction pass in a later frame found every record too
\* young and doubled the capacity bound
C28_Witness ==
    /\ last.op \in DispatchOps
    /\ ~last.hit
    /\ last.pass_destroy = 0
    /\ max_passes = 2 * MAX_PASSES
    /\ Len(passes) = MAX_PASSES + 2
    /\ current_index > 0

\* ---- the order of eviction (checked under SpecEvict) ----

\* The frames that have passed since a record was last used, when fewer
\* than IndexMod have
FramesSince(cur, p) == (cur - p.last_index) % IndexMod

\* C29: in an eviction pass no evicted record was used more recently than a
\* record that survives.
C29_EvictsLeastRecentlyUsed ==
    [][last'.op = "gc" =>
        \A e \in Evicted(passes, passes') :
            \A n \in 1 .. Len(passes') :
                FramesSince(current_index, e)
                    >= FramesSince(current_index, passes'[n])
      ]_vars

\* ---- the lookup (checked under Spec) ----

\* The record has a pass built with the parameters of the call: target
\* format, blend parameters, load_target and, for pl_dispatch_vertex,
\* vertex type and stride
BuiltFor(p, l) ==
    /\ ~p.pass.null
    /\ p.signature = l.sig
    /\ p.pass.fmt = l.fresh.fmt
    /\ p.pass.blend_params = l.fresh.blend_params
    /\ p.pass.load_target = l.fresh.load_target
    /\ l.op = "vertex" =>
           /\ p.pass.vertex_type = l.fresh.vertex_type
           /\ p.pass.vertex_stride = l.fresh.vertex_stride

\* C30: a dispatch of a raster shader reuses a record with a pass if and
\* only if a live record has the signature and was built for the same
\* target format, blend parameters, load_target and (pl_dispatch_vertex)
\* vertex type and stride; a dispatch of a compute shader reuses a record
\* with a pass if and only if one has the signature; the record reused gets
\* the current frame index as its last_index.
C30_ReuseIffSameKey ==
    [][last'.op \in DispatchOps =>
        /\ ~IsComputeSig(last'.sig) =>
              ((last'.hit /\ last'.pass_run = 1)
               <=> \E i \in 1 .. Len(passes) : BuiltFor(passes[i], last'))
        /\ IsComputeSig(last'.sig) =>
              ((last'.hit /\ last'.pass_run = 1)
               <=> \E i \in 1 .. Len(passes) :
                       /\ passes[i].signature = last'.sig
                       /\ ~passes[i].pass.null)
        /\ last'.hit =>
              \E i \in 1 .. Len(passes) :
                  /\ passes[i].signature = last'.sig
                  /\ passes' = [passes EXCEPT ![i].last_index = current_index]
      ]_vars

\* ------------------------ specification: placement in push constants

\* Backends with push constants: budgets of one and of one and a half vec4
PlaceGpus ==
    [vulkan : {TRUE}, max_pushc_size : {16, 24},
     glsl_version : {450}, max_ubo_size : {32},
     input_variables : BOOLEAN]

\* A float, a vec3, a mat2, a float[2] and a mat2 marked dynamic
PlaceShapes ==
    { [dim_v |-> 1, dim_m |-> 1, dim_a |-> 1, dynamic |-> FALSE],
      [dim_v |-> 3, dim_m |-> 1, dim_a |-> 1, dynamic |-> FALSE],
      [dim_v |-> 2, dim_m |-> 2, dim_a |-> 1, dynamic |-> FALSE],
      [dim_v |-> 1, dim_m |-> 1, dim_a |-> 2, dynamic |-> FALSE],
      [dim_v |-> 2, dim_m |-> 2, dim_a |-> 1, dynamic |-> TRUE] }

\* A root on a backend with push constants, and the raster shader with a
\* list of variables among which matrices and arrays fit the budget
InitPlace ==
    /\ gpu \in PlaceGpus
    /\ shader_vars \in UNION { [1 .. n -> PlaceShapes] : n \in 0 .. MaxVars }
    /\ pass_vars = <<>>
    /\ passes = <<>>
    /\ cached_passes = <<>>
    /\ max_passes = MAX_PASSES
    /\ current_index = 0
    /\ current_ident = 0
    /\ shaders = <<>>
    /\ held = {}
    /\ last = NoCall
    /\ failed_sigs = {}
    /\ streak = NoStreak
    /\ after_load = NotLoaded
    /\ frame_tags = {}
    /\ gpu_objects = NoObjects

NextPlace ==
    \/ DispatchVars
           /\ UNCHANGED <<failed_sigs, streak, after_load, frame_tags, gpu_objects>>

SpecPlace == InitPlace /\ [][NextPlace]_vars

\* ---- placement claims (checked under SpecPlace and SpecVars) ----

\* What the conservative loop offers push constants to: sv->var.dim_m == 1
\* && sv->var.dim_a == 1, or sv->dynamic
IsSmallOrDynamic(sv) == (sv.dim_m = 1 /\ sv.dim_a = 1) \/ sv.dynamic

\* The variables of the record placed in push constants
PushcVars ==
    { i \in 1 .. Len(pass_vars) : pass_vars[i].type = "pushc" }

\* The end of the push constants taken by small and dynamic variables
SmallEnd ==
    LET ends == { pass_vars[i].layout.offset + pass_vars[i].layout.size :
                    i \in { k \in PushcVars :
                              IsSmallOrDynamic(shader_vars[k]) } }
    IN  IF ends = {} THEN 0
        ELSE CHOOSE e \in ends : \A f \in ends : f <= e

\* C31: a non-dynamic matrix or array variable in push constants lies
\* behind every small or dynamic variable in push constants, whatever the
\* declaration order, and every small or dynamic variable that is not in
\* push constants would not have fitted the budget that was left before
\* the first matrix or array was placed.
C31_SmallBeforeLarge ==
    \A j \in PushcVars :
        ~IsSmallOrDynamic(shader_vars[j]) =>
            /\ pass_vars[j].layout.offset >= SmallEnd
            /\ \A i \in 1 .. Len(pass_vars) :
                (IsSmallOrDynamic(shader_vars[i]) /\ i \notin PushcVars) =>
                    LET l == pl_std430_layout(SmallEnd, shader_vars[i])
                    IN  l.offset + l.size > gpu.max_pushc_size

\* C31 witness: a pass was built whose non-dynamic mat2, declared first,
\* lies in push constants behind a small variable declared after it
C31_Witness ==
    /\ last.pass_create = 1
    /\ Len(pass_vars) = 2
    /\ PushcVars = {1, 2}
    /\ ~IsSmallOrDynamic(shader_vars[1])
    /\ IsSmallOrDynamic(shader_vars[2])
    /\ pass_vars[2].layout.offset = 0
    /\ pass_vars[1].layout.offset > 0

\* The size of pass->ubo_desc when the greedy loop reaches variable i: the
\* end of the uniform buffer variables declared before it
UboBefore(i) ==
    LET ends == { pass_vars[k].layout.offset + pass_vars[k].layout.size :
                    k \in { n \in 1 .. i - 1 : pass_vars[n].type = "ubo" } }
    IN  IF ends = {} THEN 0
        ELSE CHOOSE e \in ends : \A f \in ends : f <= e

\* try_ubo && gpu->glsl.version >= 440 && gpu->limits.max_ubo_size
UboOffered(i) ==
    /\ gpu.glsl_version >= 440
    /\ gpu.max_ubo_size # 0
    /\ (~shader_vars[i].dynamic \/ ~gpu.input_variables)

\* sh_buf_desc_append succeeds for variable i
AppendFits(i) ==
    LET l == pl_std140_layout(UboBefore(i), shader_vars[i])
    IN  l.offset + l.size <= gpu.max_ubo_size

\* The variables the greedy loop has handled: all of them, or those up to
\* the one at which placement failed
Handled ==
    { i \in 1 .. Len(pass_vars) :
        \A k \in 1 .. i - 1 : pass_vars[k].type # "none" }

\* C32: a variable without push-constant space is in the uniform buffer
\* exactly if the backend has GLSL 440, a uniform buffer budget, the variable
\* is not dynamic or the backend has no global uniforms, and the append to
\* the buffer succeeded; otherwise it is a global uniform exactly if the
\* backend has global uniforms; otherwise it has no placement and no pass is
\* built.
C32_UboThenGlobalThenFail ==
    /\ \A i \in Handled \ PushcVars :
        /\ pass_vars[i].type = "ubo" <=> (UboOffered(i) /\ AppendFits(i))
        /\ pass_vars[i].type = "global"
               <=> (~(UboOffered(i) /\ AppendFits(i)) /\ gpu.input_variables)
        /\ pass_vars[i].type = "none"
               <=> (~(UboOffered(i) /\ AppendFits(i)) /\ ~gpu.input_variables)
    /\ (\E i \in 1 .. Len(pass_vars) : pass_vars[i].type = "none")
        => /\ \A r \in 1 .. Len(passes) : passes[r].pass.null
           /\ last.pass_create = 0
           /\ last.pass_run = 0
           /\ ~last.ret

\* C32 witness: a pass was built on a backend with GLSL 450, a uniform
\* buffer and global uniforms: the vec3 is in the uniform buffer and the
\* dynamic float is a global uniform
C32_Witness ==
    /\ last.pass_create = 1
    /\ gpu.glsl_version >= 440 /\ gpu.max_ubo_size # 0 /\ gpu.input_variables
    /\ \E i, j \in 1 .. Len(pass_vars) :
        /\ pass_vars[i].type = "ubo" /\ ~shader_vars[i].dynamic
        /\ pass_vars[j].type = "global" /\ shader_vars[j].dynamic

\* ------------------------------------------ specification: abort

\* pl_dispatch_abort(dp, &sh) on a handle that is NULL: it returns at once
AbortNull ==
    /\ Alive
    /\ last' = [NoCall EXCEPT !.op = "abort"]
    /\ UNCHANGED <<passes, cached_passes, max_passes, current_index,
                   current_ident, shaders, held, gpu, shader_vars, pass_vars>>

\* The caller loads StoredBlob
LoadStored == pl_dispatch_load_action(StoredBlob, <<>>)

\* pl_dispatch_begin_ex with either value of unique, while the identity
\* counter is small
BeginFew ==
    \E unique \in BOOLEAN :
        /\ unique => current_ident < MaxHeld
        /\ pl_dispatch_begin_ex(unique)

NextAbort ==
    \/ ResetFrame /\ UNCHANGED <<failed_sigs, streak, after_load, frame_tags, gpu_objects>>
    \/ BeginFew /\ UNCHANGED <<failed_sigs, streak, after_load, frame_tags, gpu_objects>>
    \/ pl_dispatch_abort /\ UNCHANGED <<failed_sigs, streak, after_load, frame_tags, gpu_objects>>
    \/ AbortNull /\ UNCHANGED <<failed_sigs, streak, after_load, frame_tags, gpu_objects>>
    \/ DispatchHeld /\ UNCHANGED <<failed_sigs, streak, after_load, frame_tags, gpu_objects>>
    \/ LoadStored /\ UNCHANGED <<failed_sigs, streak, after_load, frame_tags, gpu_objects>>

SpecAbort == Init /\ [][NextAbort]_vars

\* ---- abort (checked under SpecAbort) ----

\* C35: pl_dispatch_abort makes no backend call and leaves the records, the
\* cached program entries, the capacity bound, the frame index and the
\* identity counter as they were; either the handle was NULL and nothing
\* changes, or the accumulator leaves the caller's hands and is appended to
\* the pool, in which it then occurs once.
C35_AbortOnlyPools ==
    [][last'.op = "abort" =>
        /\ UNCHANGED <<passes, cached_passes, max_passes, current_index,
                       current_ident>>
        /\ last'.pass_create = 0 /\ last'.pass_run = 0
        /\ last'.buf_create = 0 /\ last'.pass_destroy = 0
        /\ \/ UNCHANGED <<shaders, held>>
           \/ \E a \in held :
                /\ held' = held \ {a}
                /\ shaders' = Append(shaders, a.id)
                /\ InPool(shaders', a.id) = 1
      ]_vars

\* C35 witness: abort was called through a NULL handle after the
\* accumulator had been aborted into the pool, with a record live, a program
\* cached, and the frame index and identity counter advanced
C35_Witness ==
    /\ last.op = "abort"
    /\ held = {}
    /\ shaders = <<1>>
    /\ passes # <<>>
    /\ cached_passes # <<>>
    /\ current_index > 0
    /\ current_ident > 0

\* ---- the capacity bound (checked under Spec) ----

\* m is MAX_PASSES doubled some number of times
RECURSIVE IsDoubled(_)
IsDoubled(m) ==
    \/ m = MAX_PASSES
    \/ m > MAX_PASSES /\ m % 2 = 0 /\ IsDoubled(m \div 2)

\* C36: at most max_passes + 1 records are live, max_passes is MAX_PASSES
\* (100 in the code) doubled some number of times, and no step lowers it.
C36_RecordsWithinBoundPlusOne ==
    /\ [](Len(passes) <= max_passes + 1 /\ IsDoubled(max_passes))
    /\ [][max_passes' >= max_passes]_vars

\* C36 witness: after the capacity bound has doubled, a dispatch built one
\* record more than the doubled bound
C36_Witness ==
    /\ last.op \in DispatchOps
    /\ last.pass_create = 1
    /\ max_passes > MAX_PASSES
    /\ Len(passes) = max_passes + 1

\* ------------------ specification: blobs that repeat a signature

\* A blob that holds signature 2 twice, with different programs, and an
\* entry of length zero between them
DupBlob ==
    MakeBlob(<<[signature |-> Enc64(2), cached_program |-> <<34>>],
               [signature |-> Enc64(1), cached_program |-> <<>>],
               [signature |-> Enc64(2), cached_program |-> <<35>>]>>)

\* The caller loads DupBlob or StoredBlob
LoadDup ==
    \E blob \in {DupBlob, StoredBlob} : pl_dispatch_load_action(blob, <<>>)

NextDup ==
    \/ DispatchFinishIO /\ UNCHANGED <<failed_sigs, streak, after_load, frame_tags, gpu_objects>>
    \/ LoadDup /\ UNCHANGED <<failed_sigs, streak, after_load, frame_tags, gpu_objects>>

SpecDup == Init /\ [][NextDup]_vars

\* ---- cached program entries (checked under SpecDup) ----

\* C37: no two entries of dp->cached_passes have the same signature and no
\* entry has length zero; a load of a blob that holds a signature twice,
\* into a root without a record of that signature, leaves the later program
\* in the one entry of the signature.
C37_CachedEntriesUnique ==
    /\ [](/\ \A i, j \in 1 .. Len(cached_passes) :
                cached_passes[i].signature = cached_passes[j].signature
                    => i = j
          /\ \A i \in 1 .. Len(cached_passes) :
                Len(cached_passes[i].cached_program) > 0)
    /\ [][(last'.op = "load" /\ last'.blob = DupBlob /\ ~IsLive(passes, Enc64(2)))
            => \E i \in 1 .. Len(cached_passes') :
                    /\ cached_passes'[i].signature = Enc64(2)
                    /\ cached_passes'[i].cached_program = <<35>>
         ]_vars

\* C37 witness: DupBlob was loaded over an entry of signature 2 that
\* StoredBlob had left, after a dispatch had used up the entry of
\* signature 1: the one entry holds the later program of DupBlob
C37_Witness ==
    /\ last.op = "load"
    /\ last.blob = DupBlob
    /\ passes # <<>>
    /\ ~IsLive(passes, Enc64(2))
    /\ Len(cached_passes) = 1
    /\ cached_passes[1].signature = Enc64(2)
    /\ cached_passes[1].cached_program = <<35>>

\* ---- push constant ranges (checked under SpecPlace) ----

\* The bytes [offset, offset + size) of variable i in the push constants
PushcRange(i) ==
    pass_vars[i].layout.offset
    .. pass_vars[i].layout.offset + pass_vars[i].layout.size - 1

\* C38: in a pass that has just been built, the byte ranges of two
\* different variables in push constants do not overlap, and each lies
\* inside the push constant region of the size given to pl_pass_create.
C38_PushcRangesDisjoint ==
    last.pass_create = 1 =>
        /\ \A i, j \in PushcVars :
            i # j => PushcRange(i) \cap PushcRange(j) = {}
        /\ \A i \in PushcVars :
            /\ pass_vars[i].layout.size > 0
            /\ PushcRange(i) \subseteq 0 .. last.push_constants_size - 1

\* C38 witness: a pass was built with two variables in push constants
\* whose offsets run against the declaration order; the region ends with
\* the variable declared first
C38_Witness ==
    /\ last.pass_create = 1
    /\ Len(pass_vars) = 2
    /\ PushcVars = {1, 2}
    /\ pass_vars[1].layout.offset > pass_vars[2].layout.offset
    /\ last.push_constants_size
         = pass_vars[1].layout.offset + pass_vars[1].layout.size

\* --------------------------- specification: what pl_pass_run is given

\* A backend with uniform buffers and global uniforms, without push
\* constants
RunGpu ==
    [vulkan |-> FALSE, max_pushc_size |-> 0, glsl_version |-> 450,
     max_ubo_size |-> 32, input_variables |-> TRUE]

\* sh->vars in this specification: the raster shader has a float, which goes
\* into the uniform buffer, and a dynamic float, which becomes a global
\* uniform; the compute shader has a dynamic float
RunVars(sh) ==
    IF pl_shader_is_compute(sh)
    THEN <<[dim_v |-> 1, dim_m |-> 1, dim_a |-> 1, dynamic |-> TRUE]>>
    ELSE <<[dim_v |-> 1, dim_m |-> 1, dim_a |-> 1, dynamic |-> FALSE],
           [dim_v |-> 1, dim_m |-> 1, dim_a |-> 1, dynamic |-> TRUE]>>

\* sh->descs.num as the caller filled the accumulator
NumDescs(sh) == IF pl_shader_is_compute(sh) THEN 2 ELSE 1

\* The objects (textures) the caller binds to its descriptors; the handles
\* of the objects the root creates are positive, 0 is a slot never written
RunObjects == { -1, -2 }

\* The record find_pass has allocated: pass->vars as placed, pass->ubo,
\* pass->pass, and run_params.desc_bindings with one slot per descriptor
\* of the accumulator, the uniform buffer's pre-filled
with_run(rec, o, pvs, ndescs) ==
    [signature |-> rec.signature, pass |-> rec.pass,
     last_index |-> rec.last_index, ubo |-> o.ubo, obj |-> o.obj,
     vars |-> pvs,
     desc_bindings |->
        [k \in 1 .. ndescs + (IF o.ubo # 0 THEN 1 ELSE 0) |->
            IF k = ndescs + 1 THEN o.ubo ELSE 0]]

\* Mutant: the binding array is replaced by the accumulator's bindings
write_bindings_Replace(old, descs) == descs

\* for (i < sh->descs.num) rparams->desc_bindings[i] = sd_binding(...)
write_bindings(old, descs) ==
    [k \in 1 .. Len(old) |-> IF k <= Len(descs) THEN descs[k] ELSE old[k]]

\* The updates of a call in the order they were issued
RECURSIVE update_events(_, _)
update_events(updates, i) ==
    IF i > Len(updates) THEN <<>>
    ELSE (IF updates[i] = "none" THEN <<>>
          ELSE <<[ev |-> updates[i], i |-> i]>>)
         \o update_events(updates, i + 1)

\* Mutant: pl_pass_run is called before the bindings and variables are
\* brought up to date
run_trace_RunFirst(ndescs, updates) ==
    <<[ev |-> "pass_run", i |-> 0]>>
    \o [k \in 1 .. ndescs |-> [ev |-> "bind", i |-> k]]
    \o update_events(updates, 1)

\* What a dispatch that has found a pass does, in order: the loop over
\* sh->descs, the loop over sh->vars, then pl_pass_run
run_trace(ndescs, updates) ==
    [k \in 1 .. ndescs |-> [ev |-> "bind", i |-> k]]
    \o update_events(updates, 1)
    \o <<[ev |-> "pass_run", i |-> 0]>>

\* A root on RunGpu
InitRun ==
    /\ gpu = RunGpu
    /\ shader_vars = <<>>
    /\ pass_vars = <<>>
    /\ passes = <<>>
    /\ cached_passes = <<>>
    /\ max_passes = MAX_PASSES
    /\ current_index = 0
    /\ current_ident = 0
    /\ shaders = <<>>
    /\ held = {}
    /\ last = NoCall
    /\ failed_sigs = {}
    /\ streak = NoStreak
    /\ after_load = NotLoaded
    /\ frame_tags = {}
    /\ gpu_objects = NoObjects

\* pl_dispatch_finish of the raster shader onto a target of either format,
\* with objects bound to the accumulator's descriptors and data in its
\* variables
DispatchRun ==
    \E sh \in {VarsShader}, target \in Targets :
    \E bound \in [1 .. NumDescs(sh) -> RunObjects],
       data \in [1 .. Len(RunVars(sh)) -> VarData],
       pl \in {place_vars(gpu, RunVars(sh))} :
        LET i == find_index(passes, sh, target, NullBlend, FALSE, NullVParams)
            outcomes == IF i # 0 THEN {"ok"}
                        ELSE IF ~pl.ok THEN {"placement_failed"}
                        ELSE {"ok", "create_failed"}
                             \cup (IF pl.ubo_size > 0 THEN {"ubo_failed"}
                                   ELSE {})
        IN  /\ Alive
            /\ i # 0 \/ Len(passes) <= MaxRecords
            /\ \E outcome \in outcomes,
                  q \in IF i # 0 \/ Len(passes) <= max_passes THEN {passes}
                        ELSE qsort(passes) :
               \E r \in {find_pass(passes, cached_passes, max_passes,
                                   current_index, sh, target, NullBlend,
                                   FALSE, NullVParams, outcome, <<>>, q)},
                  o \in {new_objects(sh, outcome, gpu_objects.created)} :
               \E recs \in {[n \in 1 .. Len(r.passes) |->
                               IF "obj" \in DOMAIN r.passes[n]
                               THEN r.passes[n]
                               ELSE with_run(r.passes[n], o, pl.pvs,
                                             NumDescs(sh))]} :
               \E used \in {IF r.hit THEN i ELSE Len(recs)} :
               \E descs \in {IF ~r.hit /\ o.ubo # 0 THEN bound \o <<o.ubo>>
                             ELSE bound},
                  upd \in {[n \in 1 .. Len(data) |->
                              update_pass_var(data[n], recs[used].vars[n])]} :
               \E written \in {write_bindings(recs[used].desc_bindings,
                                              descs)} :
                /\ passes' =
                     IF r.pass.null THEN recs
                     ELSE [recs EXCEPT
                             ![used].desc_bindings = written,
                             ![used].vars =
                                 [n \in 1 .. Len(data) |-> upd[n].pv]]
                /\ cached_passes' = r.cached_passes
                /\ max_passes' = r.max_passes
                /\ gpu_objects' =
                     IF r.hit THEN gpu_objects
                     ELSE Backend(gpu_objects, o.created,
                                  destroy_each(r.destroyed, 1))
                /\ last' = [NoCall EXCEPT
                             !.op = "finish",
                             !.sig = pl_shader_signature(sh),
                             !.hit = r.hit,
                             !.pass_create = r.pass_create,
                             !.pass_run = IF r.pass.null THEN 0 ELSE 1,
                             !.ret = ~r.pass.null,
                             !.target = target.fmt,
                             !.pass_destroy = r.pass_destroy,
                             !.buf_create =
                                 IF r.hit \/ pl.ubo_size = 0 THEN 0 ELSE 1,
                             !.outcome = IF r.hit THEN "none" ELSE outcome,
                             !.obj = IF r.pass.null THEN 0
                                     ELSE recs[used].obj,
                             !.ubo = IF r.pass.null THEN 0
                                     ELSE recs[used].ubo,
                             !.input = descs,
                             !.bindings = IF r.pass.null THEN <<>>
                                          ELSE written,
                             !.trace =
                                 IF r.pass.null THEN <<>>
                                 ELSE run_trace(Len(descs),
                                         [n \in 1 .. Len(data) |->
                                             upd[n].update])]
                /\ return_shader
                /\ UNCHANGED <<current_index, current_ident, gpu,
                               shader_vars, pass_vars>>

NextRun ==
    \/ DispatchRun /\ UNCHANGED <<failed_sigs, streak, after_load, frame_tags>>

SpecRun == InitRun /\ [][NextRun]_vars

\* ---- the run of a pass (checked under SpecRun) ----

\* The positions of the trace of the last call that hold an event of a kind
TraceOf(kinds) ==
    { k \in 1 .. Len(last.trace) : last.trace[k].ev \in kinds }

\* What update_pass_var issues for a variable whose bytes have changed
UpdateEvents == {"var_update", "buf_write", "pushc_copy"}

\* The events at the positions ps carry the indices 1, 2, ... in this order
InOrder(ps) ==
    \A a, b \in ps : a < b => last.trace[a].i < last.trace[b].i

UboSlot(sh) == NumDescs(sh) + 1

\* C34: whenever pl_pass_run is called for a record that owns a uniform
\* buffer, the binding in the record's reserved slot is that buffer, in the
\* dispatch that built the record and in every later one that finds it,
\* whose accumulator has no descriptor for the buffer.
C34_UboBoundAtItsSlot ==
    last.pass_run = 1 =>
        /\ \E n \in 1 .. Len(passes) : passes[n].obj = last.obj
        /\ \A n \in 1 .. Len(passes) :
            (passes[n].obj = last.obj /\ passes[n].ubo # 0) =>
                /\ Len(last.bindings) >= UboSlot(VarsShader)
                /\ last.bindings[UboSlot(VarsShader)] = passes[n].ubo
                /\ last.bindings = passes[n].desc_bindings
                /\ last.hit => Len(last.input) < UboSlot(VarsShader)

\* C34 witness: a dispatch found a record that owns a uniform buffer while
\* another record owns another one; the accumulator had one descriptor, to
\* which another object was bound than when the record was last run
C34_Witness ==
    /\ last.pass_run = 1
    /\ last.hit
    /\ last.ubo # 0
    /\ Len(last.input) = NumDescs(VarsShader)
    /\ last.bindings[UboSlot(VarsShader)] = last.ubo
    /\ \E n \in 1 .. Len(passes) :
        passes[n].ubo # 0 /\ passes[n].ubo # last.ubo

\* -------------------- specification: the group counts of a compute pass

\* The largest int
INT_MAX == 2147483647

\* a + b in an int that wraps around
AddWrap(a, b) ==
    IF a > 0 /\ b > INT_MAX - a THEN (a - INT_MAX - 1) + (b - INT_MAX - 1)
    ELSE IF a < 0 /\ b < (-INT_MAX - 1) - a
    THEN (a + INT_MAX + 1) + (b + INT_MAX + 1)
    ELSE a + b

\* a * b in an int that wraps around, for b >= 0
RECURSIVE MulWrap(_, _)
MulWrap(a, b) ==
    IF b = 0 THEN 0
    ELSE LET h == MulWrap(a, b \div 2)
             d == AddWrap(h, h)
         IN  IF b % 2 = 1 THEN AddWrap(d, a) ELSE d

\* a * b does not fit an int, for a, b >= 0
MulOverflows(a, b) == a # 0 /\ b > INT_MAX \div a

\* groups *= params->dispatch_size[i] for i = 0, 1, 2: the values !groups
\* can take. The product of ints that overflows is undefined: the build
\* either tests the wrapped product or takes the product of non-zero
\* factors to be non-zero.
groups_is_zero(ds) ==
    LET g1 == MulWrap(1, ds[1])
        g2 == MulWrap(g1, ds[2])
        g3 == MulWrap(g2, ds[3])
        overflow == MulOverflows(g1, ds[2])
                    \/ (~MulOverflows(g1, ds[2]) /\ MulOverflows(g2, ds[3]))
    IN  IF overflow THEN {g3 = 0, FALSE} ELSE {g3 = 0}

\* (size + block - 1) / block
num_groups(size, block) == (size + block - 1) \div block

\* abs(x)
abs(x) == IF x < 0 THEN -x ELSE x

\* The compute shader and its res->compute_group_size
GroupsShader == [sig |-> 1, is_compute |-> TRUE]

BlockSizes == { <<2, 3>>, <<16, 16>> }

\* params->target of pl_dispatch_finish: a storable texture of 8 x 6
GroupsTarget == [fmt |-> 1, w |-> 8, h |-> 6]

\* params->rect, with x0 = y0 = 0: x1 and y1 may be negative (a flipped
\* rect) or zero (the whole target)
RectWidths == { -5, 0, 4, 5 }

RectHeights == { -3, 0, 6 }

\* params->dispatch_size, params->width and params->height of
\* pl_dispatch_compute
DispatchSizes ==
    { <<0, 0, 0>>, <<3, 2, 1>>, <<3, 0, 1>>, <<65535, 65535, 1>>,
      <<65536, 256, 256>> }

AreaSizes == { 0, 5 }

\* The part of a compute dispatch around find_pass: the record is looked up
\* or built, and pl_pass_run is given the group counts unless the record
\* has no pass or the call has been aborted by pl_assert
GroupsCall(op, target, load, input, groups, asserted) ==
    LET i == find_index(passes, GroupsShader, target, NullBlend, load,
                        NullVParams)
    IN  /\ Alive
        /\ i # 0 \/ Len(passes) <= MaxRecords
        /\ \E outcome \in IF i # 0 THEN {"ok"}
                          ELSE BuildOutcomes \ {"ubo_failed"},
              q \in IF i # 0 \/ Len(passes) <= max_passes THEN {passes}
                    ELSE qsort(passes) :
           \E r \in {find_pass(passes, cached_passes, max_passes,
                               current_index, GroupsShader, target,
                               NullBlend, load, NullVParams, outcome, <<>>,
                               q)} :
           \E run \in {~r.pass.null /\ ~asserted} :
            /\ passes' = r.passes
            /\ cached_passes' = r.cached_passes
            /\ max_passes' = r.max_passes
            /\ last' = [NoCall EXCEPT
                         !.op = IF ~r.pass.null /\ asserted
                                THEN "assert_abort" ELSE op,
                         !.sig = pl_shader_signature(GroupsShader),
                         !.hit = r.hit,
                         !.pass_create = r.pass_create,
                         !.pass_run = IF run THEN 1 ELSE 0,
                         !.ret = run,
                         !.target = target.fmt,
                         !.pass_destroy = r.pass_destroy,
                         !.outcome = IF r.hit THEN "none" ELSE outcome,
                         !.input = input,
                         !.groups = IF run THEN groups ELSE <<>>]
            /\ return_shader
            /\ UNCHANGED <<current_index, current_ident, gpu, shader_vars,
                           pass_vars>>

\* pl_dispatch_finish of the compute shader onto GroupsTarget: a rect of
\* width or height zero stands for the whole target
GroupsFinish ==
    \E w \in RectWidths, h \in RectHeights, block \in BlockSizes :
        LET x1 == IF w = 0 THEN GroupsTarget.w ELSE w
            y1 == IF h = 0 THEN GroupsTarget.h ELSE h
            full == x1 = GroupsTarget.w /\ y1 = GroupsTarget.h
        IN  GroupsCall("finish", [fmt |-> GroupsTarget.fmt], ~full,
                       [w |-> w, h |-> h, rc_w |-> x1, rc_h |-> y1,
                        block |-> block],
                       <<num_groups(abs(x1), block[1]),
                         num_groups(abs(y1), block[2]), 1>>,
                       FALSE)

\* pl_dispatch_compute of the compute shader
GroupsCompute ==
    \E ds \in DispatchSizes, width \in AreaSizes, height \in AreaSizes,
       block \in BlockSizes :
    \E zero \in groups_is_zero(ds) :
        GroupsCall("compute", NoTarget, FALSE,
                   [dispatch_size |-> ds, width |-> width,
                    height |-> height, block |-> block],
                   IF zero
                   THEN <<num_groups(width, block[1]),
                          num_groups(height, block[2]), 1>>
                   ELSE ds,
                   zero /\ (width = 0 \/ height = 0))

NextGroups ==
    \/ GroupsFinish /\ UNCHANGED <<failed_sigs, streak, after_load, frame_tags, gpu_objects>>
    \/ GroupsCompute /\ UNCHANGED <<failed_sigs, streak, after_load, frame_tags, gpu_objects>>

SpecGroups == Init /\ [][NextGroups]_vars

\* ---- group counts (checked under SpecGroups) ----

\* a / b rounded up, for a >= 0 and b > 0
Ceil(a, b) == IF a % b = 0 THEN a \div b ELSE a \div b + 1

\* C39: a compute pl_dispatch_finish over a rect of width w and height h
\* gives pl_pass_run the group counts (ceil(|w| / bw), ceil(|h| / bh), 1),
\* a width or height of zero standing for the target's; pl_dispatch_compute
\* gives it the caller's dispatch_size when the product of its three
\* components is not zero, and (ceil(width / bw), ceil(height / bh), 1)
\* otherwise; it is aborted by pl_assert only when that product is zero.
C39_GroupCounts ==
    /\ (last.op = "finish" /\ last.pass_run = 1) =>
        last.groups = <<Ceil(abs(last.input.rc_w), last.input.block[1]),
                        Ceil(abs(last.input.rc_h), last.input.block[2]), 1>>
    /\ (last.op = "compute" /\ last.pass_run = 1) =>
        LET ds == last.input.dispatch_size
        IN  IF ds[1] # 0 /\ ds[2] # 0 /\ ds[3] # 0
            THEN last.groups = ds
            ELSE last.groups = <<Ceil(last.input.width,
                                      last.input.block[1]),
                                 Ceil(last.input.height,
                                      last.input.block[2]), 1>>
    /\ last.op = "assert_abort" =>
        \E k \in 1 .. 3 : last.input.dispatch_size[k] = 0

====
